---- MODULE Spec2Model ----
(***************************************************************************)
(* Model of the value types of txova-go-types: the currency type Money    *)
(* (package money) and the identifier primitive UUID (package ids).        *)
(*                                                                         *)
(* Go's int64 is modelled as a two's-complement integer of IntBits bits    *)
(* (TLC evaluates 32-bit integers, so the width is scaled down; every      *)
(* arithmetic result is wrapped by Int64 exactly where Go wraps).          *)
(* A Go string or []byte is a sequence of one-character strings; a UUID is *)
(* a sequence of 16 byte values.                                           *)
(***************************************************************************)
EXTENDS Integers, Sequences, FiniteSets, TLC

VARIABLES
    m,      \* money: the receiver's centavos (Money.centavos)
    ret,    \* money: the Money the last call returned (centavos; 0 when none)
    parts,  \* money: the slice the last call returned (<<>> when none or nil)
    arg,    \* the argument of the last operation
    op,     \* the name of the last operation
    err,    \* the error returned by the last operation ("nil" when none,
            \* "panic" when the call panicked instead of returning)
    text,   \* the text last produced by an encoder or handed to a decoder
    src,    \* where text comes from: the value encoded, or the caller's input
    u,      \* ids: the receiver's 16 bytes (UUID, or the uuid field of a typed ID)
    typ,    \* ids: the receiver's type ("UUID" or one of the eight typed IDs)
    ok      \* ids: the boolean the last query returned (FALSE when none)

vars == <<m, ret, parts, arg, op, err, text, src, u, typ, ok>>

IdleMoney == UNCHANGED <<m, ret, parts>>
IdleUUID == UNCHANGED <<u, typ, ok>>

(***************************************************************************)
(* Bounds of the model.                                                    *)
(***************************************************************************)
IntBits == 24      \* width of the modelled int64
MaxAmt == 12       \* amounts -MaxAmt..MaxAmt are enumerated exhaustively
MaxN == 5          \* largest split count
MaxTextAmt == 120  \* amounts -MaxTextAmt..MaxTextAmt are formatted and parsed
MaxMinorLen == 3   \* longest minor part of a decimal input
MaxLeadingZeros == 1  \* leading zeros before the major part of an input
FloatBits == 10    \* precision of the modelled float64
MaxChain == 3      \* longest sequence of Add and Subtract calls
MaxRepeat == 100   \* iterations of the loop that adds one centavo
MaxMilli == 300    \* MZN inputs -0.300, -0.299, ..., 0.300 are constructed from

(***************************************************************************)
(* Program constants.                                                      *)
(***************************************************************************)
MaxRate == 100     \* Percentage: rate > 100 is rejected
Hundred == 100     \* Percentage: product / 100, product % 100
RoundUpAt == 50    \* Percentage: remainder >= 50 rounds away from zero
CentavosPerMZN == 100  \* String, Format, UnmarshalText: 1 MZN = 100 centavos
UUIDLen == 16      \* type UUID [16]byte

(***************************************************************************)
(* int64 arithmetic.                                                       *)
(***************************************************************************)
RECURSIVE TwoPow(_)
TwoPow(n) == IF n = 0 THEN 1 ELSE 2 * TwoPow(n - 1)

MaxInt64 == TwoPow(IntBits - 1) - 1
MinInt64 == -TwoPow(IntBits - 1)

\* The int64 a Go expression yields for the mathematical value x (wraps).
Int64(x) == ((x - MinInt64) % TwoPow(IntBits)) + MinInt64

AbsInt(x) == IF x < 0 THEN -x ELSE x

\* Go's a / b and a % b on integers: the quotient truncates toward zero and
\* the remainder takes the sign of the dividend (b > 0 at every use).
Quo(a, b) == IF a >= 0 THEN a \div b ELSE -((-a) \div b)
Rem(a, b) == a - b * Quo(a, b)

RECURSIVE SumSeq(_)
SumSeq(s) == IF s = <<>> THEN 0 ELSE Head(s) + SumSeq(Tail(s))

(***************************************************************************)
(* Money.Percentage                                                        *)
(***************************************************************************)
\* mutant: a rate outside [0, 100] is clamped into the range
PercentageClamped(c, rate) ==
    LET clamped == IF rate < 0 THEN 0 ELSE IF rate > MaxRate THEN MaxRate ELSE rate
        product == Int64(c * clamped)
        result == Quo(product, Hundred)
        remainder == Rem(product, Hundred)
    IN  [money |-> IF remainder >= RoundUpAt THEN Int64(result + 1)
                   ELSE IF remainder <= -RoundUpAt THEN Int64(result - 1)
                   ELSE result,
         err |-> "nil"]

\* mutant: the quotient is never rounded
PercentageTruncating(c, rate) ==
    IF rate < 0 \/ rate > MaxRate
    THEN [money |-> 0, err |-> "ErrInvalidPercentage"]
    ELSE [money |-> Quo(Int64(c * rate), Hundred), err |-> "nil"]

Percentage(c, rate) ==
    IF rate < 0 \/ rate > MaxRate
    THEN [money |-> 0, err |-> "ErrInvalidPercentage"]
    ELSE LET product == Int64(c * rate)
             result == Quo(product, Hundred)
             remainder == Rem(product, Hundred)
         IN  [money |-> IF remainder >= RoundUpAt THEN Int64(result + 1)
                        ELSE IF remainder <= -RoundUpAt THEN Int64(result - 1)
                        ELSE result,
              err |-> "nil"]

\* mutant: an invalid rate gives the zero amount instead of a panic
MustPercentageZero(c, rate) ==
    [panic |-> FALSE, money |-> Percentage(c, rate).money]

\* Money.MustPercentage: the result of Percentage, or a panic with its error
MustPercentage(c, rate) ==
    LET r == Percentage(c, rate)
    IN  IF r.err # "nil" THEN [panic |-> TRUE, money |-> 0]
        ELSE [panic |-> FALSE, money |-> r.money]

(***************************************************************************)
(* Money.Split                                                             *)
(***************************************************************************)
\* mutant: only a negative count is rejected, a zero count gives one part
SplitZeroCount(c, n) ==
    IF n < 0
    THEN [parts |-> <<>>, err |-> "ErrNegativeSplit"]
    ELSE IF n = 0 THEN [parts |-> <<c>>, err |-> "nil"]
    ELSE LET base0 == Quo(c, n)
             rem0 == Rem(c, n)
             base == IF rem0 < 0 THEN Int64(base0 - 1) ELSE base0
             remainder == IF rem0 < 0 THEN rem0 + n ELSE rem0
         IN  [parts |-> [i \in 1..n |->
                            IF i - 1 < remainder THEN Int64(base + 1) ELSE base],
              err |-> "nil"]

\* mutant: a negative remainder is not folded into [0, n)
SplitNoAdjust(c, n) ==
    IF n <= 0
    THEN [parts |-> <<>>, err |-> "ErrNegativeSplit"]
    ELSE LET base == Quo(c, n)
             remainder == Rem(c, n)
         IN  [parts |-> [i \in 1..n |->
                            IF i - 1 < remainder THEN Int64(base + 1) ELSE base],
              err |-> "nil"]

\* mutant: the extra centavos go to the last parts instead of the first
SplitTrailing(c, n) ==
    IF n <= 0
    THEN [parts |-> <<>>, err |-> "ErrNegativeSplit"]
    ELSE LET base0 == Quo(c, n)
             rem0 == Rem(c, n)
             base == IF rem0 < 0 THEN Int64(base0 - 1) ELSE base0
             remainder == IF rem0 < 0 THEN rem0 + n ELSE rem0
         IN  [parts |-> [i \in 1..n |->
                            IF n - i < remainder THEN Int64(base + 1) ELSE base],
              err |-> "nil"]

\* parts[i] of the model is parts[i-1] of the Go slice.
Split(c, n) ==
    IF n <= 0
    THEN [parts |-> <<>>, err |-> "ErrNegativeSplit"]
    ELSE LET base0 == Quo(c, n)
             rem0 == Rem(c, n)
             base == IF rem0 < 0 THEN Int64(base0 - 1) ELSE base0
             remainder == IF rem0 < 0 THEN rem0 + n ELSE rem0
         IN  [parts |-> [i \in 1..n |->
                            IF i - 1 < remainder THEN Int64(base + 1) ELSE base],
              err |-> "nil"]

(***************************************************************************)
(* Money.Add, Money.Subtract: int64 addition and subtraction, which wrap.  *)
(***************************************************************************)
\* mutant: the sum is clamped to the int64 range instead of wrapping
AddSaturating(c, other) ==
    IF c + other > MaxInt64 THEN MaxInt64
    ELSE IF c + other < MinInt64 THEN MinInt64
    ELSE c + other

Add(c, other) == Int64(c + other)

Subtract(c, other) == Int64(c - other)

\* Money.MultiplyInt
MultiplyInt(c, factor) == Int64(c * factor)

\* mutant: the negation saturates at the largest amount
NegateSaturating(c) == IF c = MinInt64 THEN MaxInt64 ELSE -c

\* Money.Negate
Negate(c) == Int64(-c)

\* Money.Abs
Abs(c) == IF c < 0 THEN Int64(-c) ELSE c

\* Money.Equals, GreaterThan, GreaterThanOrEqual, LessThan, LessThanOrEqual,
\* IsZero, IsNegative and IsPositive
Comparison(name, c, other) ==
    CASE name = "Equals" -> c = other
      [] name = "GreaterThan" -> c > other
      [] name = "GreaterThanOrEqual" -> c >= other
      [] name = "LessThan" -> c < other
      [] name = "LessThanOrEqual" -> c <= other
      [] name = "IsZero" -> c = 0
      [] name = "IsNegative" -> c < 0
      [] name = "IsPositive" -> c > 0

(***************************************************************************)
(* float64, scaled down like int64: a binary floating-point number with    *)
(* FloatBits bits of precision and round-to-nearest-even.  A float is the  *)
(* record [m, e] of value m * 2^e, with m = 0 and e = 0 for zero and       *)
(* 2^(FloatBits-1) <= |m| < 2^FloatBits otherwise.  The exponent range is  *)
(* not limited: no input of the model comes near float64's.                *)
(***************************************************************************)
FZero == [m |-> 0, e |-> 0]

\* the float nearest to the exact value n * 2^e, ties to the even mantissa
RECURSIVE RoundFloat(_, _)
RoundFloat(n, e) ==
    IF n = 0 THEN FZero
    ELSE IF AbsInt(n) < TwoPow(FloatBits - 1) THEN RoundFloat(2 * n, e - 1)
    ELSE IF AbsInt(n) < TwoPow(FloatBits) THEN [m |-> n, e |-> e]
    ELSE LET k == CHOOSE j \in 1..(30 - FloatBits) :
                      /\ AbsInt(n) \div TwoPow(j) < TwoPow(FloatBits)
                      /\ AbsInt(n) \div TwoPow(j) >= TwoPow(FloatBits - 1)
             q == AbsInt(n) \div TwoPow(k)
             r == AbsInt(n) % TwoPow(k)
             half == TwoPow(k - 1)
             mag == IF r > half \/ (r = half /\ q % 2 = 1) THEN q + 1 ELSE q
             sgn == IF n < 0 THEN -1 ELSE 1
         IN  IF mag = TwoPow(FloatBits)
             THEN [m |-> sgn * TwoPow(FloatBits - 1), e |-> e + k + 1]
             ELSE [m |-> sgn * mag, e |-> e + k]

\* n * 2^e written with an odd n
RECURSIVE OddPart(_, _)
OddPart(n, e) ==
    IF n # 0 /\ n % 2 = 0 THEN OddPart(n \div 2, e + 1) ELSE <<n, e>>

\* the exact sum n1 * 2^e1 + n2 * 2^e2, rounded once
SumRounded(n1, e1, n2, e2) ==
    IF n1 = 0 THEN RoundFloat(n2, e2)
    ELSE IF n2 = 0 THEN RoundFloat(n1, e1)
    ELSE LET a == OddPart(n1, e1)
             b == OddPart(n2, e2)
             lo == IF a[2] < b[2] THEN a[2] ELSE b[2]
         IN  RoundFloat(a[1] * TwoPow(a[2] - lo) + b[1] * TwoPow(b[2] - lo), lo)

\* a * b, a + b, and the fused a * b + c (rounded once) of float64
FMul(a, b) == RoundFloat(a.m * b.m, a.e + b.e)
FAdd(a, b) == SumRounded(a.m, a.e, b.m, b.e)
FMA(a, b, c) == SumRounded(a.m * b.m, a.e + b.e, c.m, c.e)

\* x*y + z as the build computes it: Go lets an implementation fuse the
\* two operations
MulAdd(a, b, c, fused) == IF fused THEN FMA(a, b, c) ELSE FAdd(FMul(a, b), c)

\* the float64 constants of the package
F100 == RoundFloat(Hundred, 0)
FHalf == RoundFloat(1, -1)
FNegHalf == RoundFloat(-1, -1)

\* float64(c) for an int64 c
Float64OfInt(c) == RoundFloat(c, 0)

\* int64(f) for a float64 f whose integer part an int64 holds: the
\* fraction is discarded
Int64OfFloat(f) ==
    IF f.e >= 0 THEN f.m * TwoPow(f.e)
    ELSE IF -f.e > FloatBits THEN 0
    ELSE Quo(f.m, TwoPow(-f.e))

\* f and f +- 0.5 are inside the int64 range, where int64(f) is defined by
\* the language (outside it the result is left to the implementation)
FitsInt64(f) == f.e + FloatBits < IntBits - 1

(***************************************************************************)
(* FromMZN, Money.Multiply                                                 *)
(***************************************************************************)
FromMZN(mzn, fused) ==
    IF mzn.m < 0 THEN Int64OfFloat(MulAdd(mzn, F100, FNegHalf, fused))
    ELSE Int64OfFloat(MulAdd(mzn, F100, FHalf, fused))

Multiply(c, factor, fused) ==
    LET result == FMul(Float64OfInt(c), factor)
    IN  IF result.m >= 0
        THEN Int64OfFloat(MulAdd(Float64OfInt(c), factor, FHalf, fused))
        ELSE Int64OfFloat(MulAdd(Float64OfInt(c), factor, FNegHalf, fused))

(***************************************************************************)
(* Strings: the library functions the money package calls.                 *)
(***************************************************************************)
DigitChars == <<"0", "1", "2", "3", "4", "5", "6", "7", "8", "9">>

IsDigit(ch) == \E d \in 1..10 : DigitChars[d] = ch
DigitVal(ch) == (CHOOSE d \in 1..10 : DigitChars[d] = ch) - 1

\* the decimal digits of n >= 0, no leading zeros
RECURSIVE Itoa(_)
Itoa(n) ==
    IF n < 10 THEN <<DigitChars[n + 1]>>
    ELSE Itoa(n \div 10) \o <<DigitChars[(n % 10) + 1]>>

\* strconv.FormatInt(x, 10) and fmt's %d
FormatInt(x) == IF x < 0 THEN <<"-">> \o Itoa(-x) ELSE Itoa(x)

\* fmt's %02d: zero-padded to width 2, the sign counting toward the width
FmtD02(x) ==
    IF x < 0 THEN <<"-">> \o Itoa(-x)
    ELSE IF x < 10 THEN <<"0">> \o Itoa(x)
    ELSE Itoa(x)

\* strconv.ParseUint(s, 10, 64) from accumulator acc: the value, -1 on a
\* syntax error, -2 once the value exceeds the magnitude of MinInt64
RECURSIVE ParseUintFrom(_, _)
ParseUintFrom(s, acc) ==
    IF s = <<>> THEN acc
    ELSE IF ~IsDigit(Head(s)) THEN -1
    ELSE LET n == acc * 10 + DigitVal(Head(s))
         IN  IF n > MaxInt64 + 1 THEN -2 ELSE ParseUintFrom(Tail(s), n)

\* strconv.ParseInt(s, 10, 64): an optional sign, then one or more digits;
\* a value outside int64 is an error
ParseInt(s) ==
    IF s = <<>> THEN [ok |-> FALSE, val |-> 0]
    ELSE LET neg == Head(s) = "-"
             body == IF Head(s) \in {"+", "-"} THEN Tail(s) ELSE s
             un == IF body = <<>> THEN -1 ELSE ParseUintFrom(body, 0)
         IN  IF un < 0 THEN [ok |-> FALSE, val |-> 0]
             ELSE IF ~neg /\ un > MaxInt64 THEN [ok |-> FALSE, val |-> 0]
             ELSE [ok |-> TRUE, val |-> IF neg THEN -un ELSE un]

IsSpace(ch) == ch \in {" ", "\t", "\n", "\r"}

RECURSIVE TrimLeft(_)
TrimLeft(s) ==
    IF s # <<>> /\ IsSpace(Head(s)) THEN TrimLeft(Tail(s)) ELSE s

RECURSIVE TrimRight(_)
TrimRight(s) ==
    IF s # <<>> /\ IsSpace(s[Len(s)])
    THEN TrimRight(SubSeq(s, 1, Len(s) - 1)) ELSE s

\* strings.TrimSpace
TrimSpace(s) == TrimRight(TrimLeft(s))

\* strings.HasPrefix, strings.HasSuffix, strings.TrimSuffix
HasPrefix(s, pre) == Len(s) >= Len(pre) /\ SubSeq(s, 1, Len(pre)) = pre
HasSuffix(s, suf) ==
    Len(s) >= Len(suf) /\ SubSeq(s, Len(s) - Len(suf) + 1, Len(s)) = suf
TrimSuffix(s, suf) ==
    IF HasSuffix(s, suf) THEN SubSeq(s, 1, Len(s) - Len(suf)) ELSE s

\* strings.Contains(s, ch) for a one-character ch
Contains(s, ch) == \E i \in 1..Len(s) : s[i] = ch

\* strings.Split(s, ch) for a one-character separator ch
RECURSIVE StringsSplit(_, _)
StringsSplit(s, ch) ==
    IF ~Contains(s, ch) THEN <<s>>
    ELSE LET i == CHOOSE k \in 1..Len(s) :
                      s[k] = ch /\ \A j \in 1..(k - 1) : s[j] # ch
         IN  <<SubSeq(s, 1, i - 1)>> \o StringsSplit(SubSeq(s, i + 1, Len(s)), ch)

(***************************************************************************)
(* Money.String, Money.Format, Money.MarshalJSON                           *)
(***************************************************************************)
SuffixMZN == <<" ", "M", "Z", "N">>
BareMZN == <<"M", "Z", "N">>

\* Money.Format: "<sign><mzn>.<cents>"
Format(c) ==
    LET sign == IF c < 0 THEN <<"-">> ELSE <<>>
        centavos == IF c < 0 THEN Int64(-c) ELSE c
        mzn == Quo(centavos, CentavosPerMZN)
        cents == Rem(centavos, CentavosPerMZN)
    IN  sign \o FormatInt(mzn) \o <<".">> \o FmtD02(cents)

\* Money.String: "<sign><mzn>.<cents> MZN"
MoneyString(c) ==
    LET sign == IF c < 0 THEN <<"-">> ELSE <<>>
        centavos == IF c < 0 THEN Int64(-c) ELSE c
        mzn == Quo(centavos, CentavosPerMZN)
        cents == Rem(centavos, CentavosPerMZN)
    IN  sign \o FormatInt(mzn) \o <<".">> \o FmtD02(cents) \o SuffixMZN

\* Money.MarshalJSON: the bare base-10 integer of the centavos
MarshalJSON(c) == FormatInt(c)

\* mutant: text marshaling writes the bare integer, as MarshalJSON does
MarshalTextBareInteger(c) == FormatInt(c)

\* Money.MarshalText: []byte(m.String())
MarshalText(c) == MoneyString(c)

(***************************************************************************)
(* Money.UnmarshalText on a receiver holding c0: the centavos the receiver *)
(* holds afterwards and the error returned.                                *)
(***************************************************************************)
InvalidAmount(c0) == [centavos |-> c0, err |-> "ErrInvalidAmount"]

\* mutant: a one-digit centavos part is not padded
CentPartUnpadded(part) ==
    IF Len(part) = 0 THEN <<"0", "0">>
    ELSE IF Len(part) > 2 THEN SubSeq(part, 1, 2)
    ELSE part

\* "Pad or truncate centavos to 2 digits"
CentPart(part) ==
    IF Len(part) = 0 THEN <<"0", "0">>
    ELSE IF Len(part) = 1 THEN part \o <<"0">>
    ELSE IF Len(part) > 2 THEN SubSeq(part, 1, 2)
    ELSE part

UnmarshalText(c0, data) ==
    LET s0 == TrimSpace(data)
        s == TrimSpace(TrimSuffix(TrimSuffix(s0, SuffixMZN), BareMZN))
    IN  IF s0 = <<>> THEN [centavos |-> 0, err |-> "nil"]
        ELSE IF Contains(s, ".")
        THEN LET isNegative == HasPrefix(s, <<"-">>)
                 ps == StringsSplit(s, ".")
             IN  IF Len(ps) # 2 THEN InvalidAmount(c0)
                 ELSE LET mzn == ParseInt(ps[1])
                          cents == ParseInt(CentPart(ps[2]))
                      IN  IF ~mzn.ok THEN InvalidAmount(c0)
                          ELSE IF ~cents.ok THEN InvalidAmount(c0)
                          ELSE IF isNegative
                          THEN [centavos |->
                                    Int64(mzn.val * CentavosPerMZN - cents.val),
                                err |-> "nil"]
                          ELSE [centavos |->
                                    Int64(mzn.val * CentavosPerMZN + cents.val),
                                err |-> "nil"]
        ELSE LET centavos == ParseInt(s)
             IN  IF ~centavos.ok THEN InvalidAmount(c0)
                 ELSE [centavos |-> centavos.val, err |-> "nil"]

(***************************************************************************)
(* Money.UnmarshalJSON and Money.Scan on a receiver holding c0.            *)
(***************************************************************************)
NullLiteral == <<"n", "u", "l", "l">>

\* mutant: the error path stores the zero amount
UnmarshalJSONZeroOnError(c0, data) ==
    LET s == TrimSpace(data)
        centavos == ParseInt(s)
    IN  IF s = NullLiteral THEN [centavos |-> 0, err |-> "nil"]
        ELSE IF ~centavos.ok THEN [centavos |-> 0, err |-> "ErrInvalidAmount"]
        ELSE [centavos |-> centavos.val, err |-> "nil"]

\* mutant: a JSON string holding an integer is accepted
UnmarshalJSONAcceptsString(c0, data) ==
    LET s0 == TrimSpace(data)
        s == IF Len(s0) >= 2 /\ s0[1] = "\"" /\ s0[Len(s0)] = "\""
             THEN SubSeq(s0, 2, Len(s0) - 1) ELSE s0
        centavos == ParseInt(s)
    IN  IF s = NullLiteral THEN [centavos |-> 0, err |-> "nil"]
        ELSE IF ~centavos.ok THEN InvalidAmount(c0)
        ELSE [centavos |-> centavos.val, err |-> "nil"]

UnmarshalJSON(c0, data) ==
    LET s == TrimSpace(data)
        centavos == ParseInt(s)
    IN  IF s = NullLiteral THEN [centavos |-> 0, err |-> "nil"]
        ELSE IF ~centavos.ok THEN InvalidAmount(c0)
        ELSE [centavos |-> centavos.val, err |-> "nil"]

\* Money.Value: the driver.Value holding the centavos as an int64
MoneyValue(c) == [type |-> "int64", v |-> c]

\* mutant: a nil source leaves the receiver as it was
MoneyScanNilKeeps(c0, from) ==
    IF from.type \in {"int64", "int"} THEN [centavos |-> from.v, err |-> "nil"]
    ELSE IF from.type = "float64"
    THEN [centavos |-> Int64OfFloat(from.v), err |-> "nil"]
    ELSE IF from.type \in {"bytes", "string"}
    THEN LET centavos == ParseInt(from.v)
         IN  IF ~centavos.ok THEN InvalidAmount(c0)
             ELSE [centavos |-> centavos.val, err |-> "nil"]
    ELSE IF from.type = "nil" THEN [centavos |-> c0, err |-> "nil"]
    ELSE [centavos |-> c0, err |-> "cannot scan type into Money"]

\* Money.Scan(src): src is an int64, an int, a float64 (a float record), a
\* []byte or a string (both as text), nil, or a value of another type
MoneyScan(c0, from) ==
    IF from.type \in {"int64", "int"} THEN [centavos |-> from.v, err |-> "nil"]
    ELSE IF from.type = "float64"
    THEN [centavos |-> Int64OfFloat(from.v), err |-> "nil"]
    ELSE IF from.type \in {"bytes", "string"}
    THEN LET centavos == ParseInt(from.v)
         IN  IF ~centavos.ok THEN InvalidAmount(c0)
             ELSE [centavos |-> centavos.val, err |-> "nil"]
    ELSE IF from.type = "nil" THEN [centavos |-> 0, err |-> "nil"]
    ELSE [centavos |-> c0, err |-> "cannot scan type into Money"]

(***************************************************************************)
(* encoding/hex, as package ids calls it.                                  *)
(***************************************************************************)
HexChars == <<"0", "1", "2", "3", "4", "5", "6", "7", "8", "9",
              "a", "b", "c", "d", "e", "f">>
UpperHexChars == <<"0", "1", "2", "3", "4", "5", "6", "7", "8", "9",
                   "A", "B", "C", "D", "E", "F">>

\* hex.Encode: two lower-case digits per byte, high nibble first
RECURSIVE HexEncode(_)
HexEncode(bytes) ==
    IF bytes = <<>> THEN <<>>
    ELSE <<HexChars[(Head(bytes) \div 16) + 1], HexChars[(Head(bytes) % 16) + 1]>>
         \o HexEncode(Tail(bytes))

\* mutant: only the lower-case digits are hex digits
FromHexCharLowerOnly(ch) ==
    IF \E d \in 1..16 : HexChars[d] = ch
    THEN (CHOOSE d \in 1..16 : HexChars[d] = ch) - 1
    ELSE -1

\* the value of a hex digit of either case, -1 for any other character
FromHexChar(ch) ==
    IF \E d \in 1..16 : HexChars[d] = ch
    THEN (CHOOSE d \in 1..16 : HexChars[d] = ch) - 1
    ELSE IF \E d \in 1..16 : UpperHexChars[d] = ch
    THEN (CHOOSE d \in 1..16 : UpperHexChars[d] = ch) - 1
    ELSE -1

\* hex.DecodeString: the bytes, or an error for a character that is not a
\* hex digit or for an odd length
RECURSIVE HexDecodeString(_)
HexDecodeString(s) ==
    IF s = <<>> THEN [ok |-> TRUE, bytes |-> <<>>]
    ELSE IF Len(s) = 1 THEN [ok |-> FALSE, bytes |-> <<>>]
    ELSE LET a == FromHexChar(s[1])
             b == FromHexChar(s[2])
             rest == HexDecodeString(SubSeq(s, 3, Len(s)))
         IN  IF a < 0 \/ b < 0 \/ ~rest.ok THEN [ok |-> FALSE, bytes |-> <<>>]
             ELSE [ok |-> TRUE, bytes |-> <<a * 16 + b>> \o rest.bytes]

(***************************************************************************)
(* UUID: a [16]byte; byte i of the Go array is element i + 1.              *)
(***************************************************************************)
zeroUUID == [i \in 1..UUIDLen |-> 0]

InvalidUUID == [uuid |-> zeroUUID, err |-> "ErrInvalidUUID"]

\* mutant: the four separator positions are dropped without being checked
ParseUUIDAnySeparator(s) ==
    IF Len(s) = 36 \/ Len(s) = 32
    THEN LET hex == IF Len(s) = 36
                    THEN SubSeq(s, 1, 8) \o SubSeq(s, 10, 13) \o SubSeq(s, 15, 18)
                         \o SubSeq(s, 20, 23) \o SubSeq(s, 25, Len(s))
                    ELSE s
             decoded == HexDecodeString(hex)
         IN  IF ~decoded.ok THEN InvalidUUID
             ELSE [uuid |-> decoded.bytes, err |-> "nil"]
    ELSE InvalidUUID

\* mutant: the last group is cut one byte short (s[24:35])
ParseUUIDShortTail(s) ==
    IF Len(s) = 36 /\ (s[9] # "-" \/ s[14] # "-" \/ s[19] # "-" \/ s[24] # "-")
    THEN InvalidUUID
    ELSE IF Len(s) = 36 \/ Len(s) = 32
    THEN LET hex == IF Len(s) = 36
                    THEN SubSeq(s, 1, 8) \o SubSeq(s, 10, 13) \o SubSeq(s, 15, 18)
                         \o SubSeq(s, 20, 23) \o SubSeq(s, 25, Len(s) - 2)
                    ELSE s
             decoded == HexDecodeString(hex)
         IN  IF ~decoded.ok THEN InvalidUUID
             ELSE [uuid |-> [i \in 1..UUIDLen |->
                               IF i <= Len(decoded.bytes) THEN decoded.bytes[i]
                               ELSE 0],
                   err |-> "nil"]
    ELSE InvalidUUID

\* ParseUUID: the identifier and the error returned
ParseUUID(s) ==
    IF Len(s) = 36 /\ (s[9] # "-" \/ s[14] # "-" \/ s[19] # "-" \/ s[24] # "-")
    THEN InvalidUUID
    ELSE IF Len(s) = 36 \/ Len(s) = 32
    THEN LET hex == IF Len(s) = 36
                    THEN SubSeq(s, 1, 8) \o SubSeq(s, 10, 13) \o SubSeq(s, 15, 18)
                         \o SubSeq(s, 20, 23) \o SubSeq(s, 25, Len(s))
                    ELSE s
             decoded == HexDecodeString(hex)
         IN  IF ~decoded.ok THEN InvalidUUID
             \* copy(uuid[:], decoded)
             ELSE [uuid |-> [i \in 1..UUIDLen |->
                               IF i <= Len(decoded.bytes) THEN decoded.bytes[i]
                               ELSE 0],
                   err |-> "nil"]
    ELSE InvalidUUID

\* UUID.String: 8-4-4-4-12 lower-case hex digits
UUIDString(id) ==
    HexEncode(SubSeq(id, 1, 4)) \o <<"-">> \o HexEncode(SubSeq(id, 5, 6))
        \o <<"-">> \o HexEncode(SubSeq(id, 7, 8)) \o <<"-">>
        \o HexEncode(SubSeq(id, 9, 10)) \o <<"-">> \o HexEncode(SubSeq(id, 11, 16))

\* mutant: only the first byte is compared
IsZeroFirstByte(id) == id[1] = 0

\* UUID.IsZero
IsZero(id) == id = zeroUUID

\* UUID.Bytes: a copy of the 16 bytes
Bytes(id) == [i \in 1..UUIDLen |-> id[i]]

\* mutant: the slice returned is a view of the identifier's own array
BytesSliceShared(id) == [data |-> Bytes(id), shared |-> TRUE]

\* the slice UUID.Bytes returns: make([]byte, 16) is new storage, so the
\* slice shares none with the identifier
BytesSlice(id) == [data |-> Bytes(id), shared |-> FALSE]

\* mutant: the variant is written into byte 6 as well, byte 8 is left alone
NewUUIDNoVariant(read) ==
    IF ~read.ok
    THEN [uuid |-> zeroUUID, err |-> "failed to generate UUID"]
    ELSE [uuid |-> [i \in 1..UUIDLen |->
                      IF i = 7 THEN (read.bytes[i] % 16) + 64
                      ELSE read.bytes[i]],
          err |-> "nil"]

\* NewUUID, the random source having delivered read.bytes or failed:
\* uuid[6] = (uuid[6] & 0x0f) | 0x40 and uuid[8] = (uuid[8] & 0x3f) | 0x80
NewUUID(read) ==
    IF ~read.ok
    THEN [uuid |-> zeroUUID, err |-> "failed to generate UUID"]
    ELSE [uuid |-> [i \in 1..UUIDLen |->
                      IF i = 7 THEN (read.bytes[i] % 16) + 64
                      ELSE IF i = 9 THEN (read.bytes[i] % 64) + 128
                      ELSE read.bytes[i]],
          err |-> "nil"]

Quote == <<"\"">>

\* mutant: the zero identifier is written as the JSON null
UUIDMarshalJSONNullForZero(id) ==
    IF id = zeroUUID THEN NullLiteral ELSE Quote \o UUIDString(id) \o Quote

\* UUID.MarshalJSON, UUID.MarshalText, UUID.Value
UUIDMarshalJSON(id) == Quote \o UUIDString(id) \o Quote
UUIDMarshalText(id) == UUIDString(id)
UUIDValue(id) == UUIDString(id)

\* mutant: the JSON null is decoded to the zero identifier
UUIDUnmarshalJSONNullAsZero(id0, data) ==
    IF data = NullLiteral THEN [uuid |-> zeroUUID, err |-> "nil"]
    ELSE IF Len(data) < 2 \/ data[1] # "\"" \/ data[Len(data)] # "\""
    THEN [uuid |-> id0, err |-> "ErrInvalidUUID"]
    ELSE LET parsed == ParseUUID(SubSeq(data, 2, Len(data) - 1))
         IN  IF parsed.err # "nil" THEN [uuid |-> id0, err |-> parsed.err]
             ELSE [uuid |-> parsed.uuid, err |-> "nil"]

\* UUID.UnmarshalJSON on a receiver holding id0: the identifier the
\* receiver holds afterwards and the error returned
UUIDUnmarshalJSON(id0, data) ==
    IF Len(data) < 2 \/ data[1] # "\"" \/ data[Len(data)] # "\""
    THEN [uuid |-> id0, err |-> "ErrInvalidUUID"]
    ELSE LET parsed == ParseUUID(SubSeq(data, 2, Len(data) - 1))
         IN  IF parsed.err # "nil" THEN [uuid |-> id0, err |-> parsed.err]
             ELSE [uuid |-> parsed.uuid, err |-> "nil"]

\* mutant: the result of ParseUUID is stored before the error is looked at
UUIDUnmarshalTextStoresFirst(id0, data) ==
    LET parsed == ParseUUID(data)
    IN  [uuid |-> parsed.uuid, err |-> parsed.err]

\* UUID.UnmarshalText
UUIDUnmarshalText(id0, data) ==
    LET parsed == ParseUUID(data)
    IN  IF parsed.err # "nil" THEN [uuid |-> id0, err |-> parsed.err]
        ELSE [uuid |-> parsed.uuid, err |-> "nil"]

\* string(v) for a []byte v: the characters of the bytes; a byte outside
\* the table is a character that is neither a hex digit nor a separator
ASCII == [c \in {"0", "1", "2", "3", "4", "5", "6", "7", "8", "9",
                 "a", "b", "c", "d", "e", "f", "A", "B", "C", "D", "E", "F",
                 "-", "\"", " ", "g", "l", "n", "u", "z"} |->
            CASE c = "-" -> 45 [] c = "\"" -> 34 [] c = " " -> 32 [] c = "g" -> 103
              [] c = "l" -> 108 [] c = "n" -> 110 [] c = "u" -> 117 [] c = "z" -> 122
              [] c \in {"a", "b", "c", "d", "e", "f"} -> 87 + FromHexChar(c)
              [] c \in {"A", "B", "C", "D", "E", "F"} -> 55 + FromHexChar(c)
              [] OTHER -> 48 + FromHexChar(c)]

Chr(b) == IF \E c \in DOMAIN ASCII : ASCII[c] = b
          THEN CHOOSE c \in DOMAIN ASCII : ASCII[c] = b
          ELSE "?"
Ord(c) == IF c \in DOMAIN ASCII THEN ASCII[c] ELSE 63

StringOf(v) == [i \in 1..Len(v) |-> Chr(v[i])]
BytesOf(s) == [i \in 1..Len(s) |-> Ord(s[i])]

\* mutant: a []byte is always parsed as text
ScanBytesAsText(id0, from) ==
    IF from.type \in {"string", "bytes"}
    THEN LET parsed == ParseUUID(IF from.type = "bytes" THEN StringOf(from.v)
                                 ELSE from.v)
         IN  IF parsed.err # "nil" THEN [uuid |-> id0, err |-> parsed.err]
             ELSE [uuid |-> parsed.uuid, err |-> "nil"]
    ELSE IF from.type = "nil"
    THEN [uuid |-> zeroUUID, err |-> "nil"]
    ELSE [uuid |-> id0, err |-> "cannot scan type into UUID"]

\* UUID.Scan(src): src is a string, a []byte, nil or a value of another type
Scan(id0, from) ==
    IF from.type = "string"
    THEN LET parsed == ParseUUID(from.v)
         IN  IF parsed.err # "nil" THEN [uuid |-> id0, err |-> parsed.err]
             ELSE [uuid |-> parsed.uuid, err |-> "nil"]
    ELSE IF from.type = "bytes"
    THEN IF Len(from.v) = UUIDLen
         THEN [uuid |-> [i \in 1..UUIDLen |-> from.v[i]], err |-> "nil"]
         ELSE LET parsed == ParseUUID(StringOf(from.v))
              IN  IF parsed.err # "nil" THEN [uuid |-> id0, err |-> parsed.err]
                  ELSE [uuid |-> parsed.uuid, err |-> "nil"]
    ELSE IF from.type = "nil"
    THEN [uuid |-> zeroUUID, err |-> "nil"]
    ELSE [uuid |-> id0, err |-> "cannot scan type into UUID"]

(***************************************************************************)
(* The amounts, rates and counts the callers of the model pass.            *)
(***************************************************************************)
Amounts ==
    (-MaxAmt..MaxAmt)
        \cup {10000, 10001, -10000, -10001, 105, -105, 1999, -1999}
        \cup {MinInt64, MinInt64 + 1, MaxInt64, MaxInt64 - 1}
        \cup {Quo(MaxInt64, Hundred), Quo(MaxInt64, Hundred) + 1,
              Quo(MinInt64, Hundred), Quo(MinInt64, Hundred) - 1}

Rates == (-1..(MaxRate + 1)) \cup {-MaxRate, 2 * MaxRate}

Counts == (-1..MaxN) \cup {-MaxN}

(***************************************************************************)
(* Money: the arithmetic operations.                                       *)
(***************************************************************************)
InitMoney ==
    /\ m = 0
    /\ ret = 0
    /\ parts = <<>>
    /\ arg = 0
    /\ op = "Zero"
    /\ err = "nil"
    /\ text = <<>>
    /\ src = [kind |-> "none"]
    /\ u = zeroUUID
    /\ typ = "UUID"
    /\ ok = FALSE

\* FromCentavos(c): the caller constructs a new receiver.
FromCentavos(c) ==
    /\ m' = c
    /\ ret' = c
    /\ arg' = c
    /\ op' = "FromCentavos"
    /\ err' = "nil"
    /\ parts' = <<>>
    /\ text' = <<>>
    /\ src' = [kind |-> "none"]
    /\ IdleUUID

\* m.Percentage(rate)
DoPercentage(rate) ==
    /\ ret' = Percentage(m, rate).money
    /\ err' = Percentage(m, rate).err
    /\ arg' = rate
    /\ op' = "Percentage"
    /\ parts' = <<>>
    /\ UNCHANGED <<m, text, src>>
    /\ IdleUUID

\* m.Split(n)
DoSplit(n) ==
    /\ parts' = Split(m, n).parts
    /\ err' = Split(m, n).err
    /\ arg' = n
    /\ op' = "Split"
    /\ ret' = 0
    /\ UNCHANGED <<m, text, src>>
    /\ IdleUUID

NextMoney ==
    \/ \E c \in Amounts : FromCentavos(c)
    \/ \E rate \in Rates : DoPercentage(rate)
    \/ \E n \in Counts : DoSplit(n)

SpecMoney == InitMoney /\ [][NextMoney]_vars

(***************************************************************************)
(* Money: Add, Subtract, FromMZN and Multiply.  A caller chains Add and    *)
(* Subtract calls (x = x.Add(b)), src recording where the chain started    *)
(* and the calls made; another adds one centavo in a loop.                 *)
(***************************************************************************)
ArithAmounts == {0, 1, -1, 30, MaxInt64, MinInt64,
                 TwoPow(FloatBits) + 1, -(TwoPow(FloatBits) + 1)}

ArithOperands == {1, -1, MaxInt64, MinInt64}

\* x = x.Add(b) or x = x.Subtract(b): name is the method, v its result
Chained(name, b, v) ==
    /\ \/ src.kind = "none"
       \/ src.kind = "chain" /\ Len(src.ops) < MaxChain
    /\ m' = v
    /\ ret' = v
    /\ arg' = b
    /\ op' = name
    /\ err' = "nil"
    /\ src' = IF src.kind = "none"
              THEN [kind |-> "chain", start |-> m, ops |-> <<<<name, b>>>>]
              ELSE [src EXCEPT !.ops = Append(src.ops, <<name, b>>)]
    /\ parts' = <<>>
    /\ text' = <<>>
    /\ IdleUUID

DoAdd(b) == Chained("Add", b, Add(m, b))

DoSubtract(b) == Chained("Subtract", b, Subtract(m, b))

\* result := Zero(); for range 100 { result = result.Add(oneCent) }
AddOneCentavo ==
    /\ \/ src.kind = "none" /\ m = 0
       \/ src.kind = "repeat" /\ src.n < MaxRepeat
    /\ m' = Add(m, 1)
    /\ ret' = Add(m, 1)
    /\ arg' = 1
    /\ op' = "Add"
    /\ err' = "nil"
    /\ src' = [kind |-> "repeat", n |-> IF src.kind = "none" THEN 1 ELSE src.n + 1]
    /\ parts' = <<>>
    /\ text' = <<>>
    /\ IdleUUID

\* the float64 nearest to num / den, as the compiler rounds a literal
FloatLit(num, den) ==
    IF num = 0 THEN FZero
    ELSE LET k == CHOOSE j \in 0..(FloatBits + 10) :
                      /\ (AbsInt(num) * TwoPow(j)) \div den < TwoPow(FloatBits)
                      /\ (AbsInt(num) * TwoPow(j)) \div den >= TwoPow(FloatBits - 1)
             q == (AbsInt(num) * TwoPow(k)) \div den
             r == (AbsInt(num) * TwoPow(k)) % den
             mag == IF 2 * r > den \/ (2 * r = den /\ q % 2 = 1) THEN q + 1 ELSE q
         IN  RoundFloat(IF num < 0 THEN -mag ELSE mag, -k)

\* every float64 of exponent e, of both signs
FloatsAt(e) ==
    {[m |-> sg * n, e |-> e] :
        sg \in {-1, 1}, n \in TwoPow(FloatBits - 1)..(TwoPow(FloatBits) - 1)}

\* the largest float64 below 0.5
PredHalf == [m |-> TwoPow(FloatBits) - 1, e |-> -(FloatBits + 1)]

\* the MZN values callers construct from: thousandths of an MZN, the
\* floats around half a centavo, and floats whose centavos need every bit
MZNInputs ==
    {FloatLit(n, 1000) : n \in -MaxMilli..MaxMilli}
        \cup FloatsAt(-(FloatBits + 7)) \cup FloatsAt(3 - FloatBits)
        \cup {FloatLit(1005, 1000), FloatLit(1505, 10), FloatLit(-1505, 10)}

Factors ==
    {FZero, PredHalf, [PredHalf EXCEPT !.m = -PredHalf.m], FHalf, FNegHalf,
     FloatLit(1, 1), FloatLit(-1, 1), FloatLit(3, 2), FloatLit(2, 1),
     FloatLit(1, 10), FloatLit(15, 100), FloatLit(1, 3), FloatLit(-1, 3)}

\* x := FromMZN(f)
DoFromMZN(f, fused) ==
    /\ FitsInt64(FMul(f, F100))
    /\ m' = FromMZN(f, fused)
    /\ ret' = FromMZN(f, fused)
    /\ src' = [kind |-> "float", f |-> f, fused |-> fused]
    /\ op' = "FromMZN"
    /\ arg' = 0
    /\ err' = "nil"
    /\ parts' = <<>>
    /\ text' = <<>>
    /\ IdleUUID

\* a caller constructs from a float
ConstructFromMZN ==
    /\ op \in {"Zero", "FromCentavos"}
    /\ \E f \in MZNInputs, fused \in BOOLEAN : DoFromMZN(f, fused)

\* sum := x.Add(FromMZN(g)), x having been constructed by FromMZN
AddFromMZN(g) ==
    /\ op = "FromMZN"
    /\ m' = Add(m, FromMZN(g, src.fused))
    /\ ret' = Add(m, FromMZN(g, src.fused))
    /\ src' = [kind |-> "floatsum", f |-> src.f, g |-> g]
    /\ op' = "Add"
    /\ arg' = FromMZN(g, src.fused)
    /\ err' = "nil"
    /\ parts' = <<>>
    /\ text' = <<>>
    /\ IdleUUID

\* m.Multiply(f)
DoMultiply(f, fused) ==
    /\ FitsInt64(FMul(Float64OfInt(m), f))
    /\ ret' = Multiply(m, f, fused)
    /\ src' = [kind |-> "float", f |-> f, fused |-> fused]
    /\ op' = "Multiply"
    /\ arg' = 0
    /\ err' = "nil"
    /\ parts' = <<>>
    /\ text' = <<>>
    /\ UNCHANGED m
    /\ IdleUUID

\* a caller scales an amount it constructed
ScaleAmount ==
    /\ op \in {"Zero", "FromCentavos"}
    /\ \E f \in Factors, fused \in BOOLEAN : DoMultiply(f, fused)

\* sum.String() of a sum
StringOfSum ==
    /\ op = "Add"
    /\ text' = MoneyString(m)
    /\ op' = "String"
    /\ err' = "nil"
    /\ arg' = 0
    /\ ret' = 0
    /\ parts' = <<>>
    /\ UNCHANGED <<m, src>>
    /\ IdleUUID

NextArith ==
    \/ \E c \in ArithAmounts : FromCentavos(c)
    \/ \E b \in ArithOperands : DoAdd(b)
    \/ \E b \in ArithOperands : DoSubtract(b)
    \/ AddOneCentavo
    \/ ConstructFromMZN
    \/ \E g \in {FloatLit(2, 10), FloatLit(-2, 10)} : AddFromMZN(g)
    \/ ScaleAmount
    \/ StringOfSum

SpecArith == InitMoney /\ [][NextArith]_vars

(***************************************************************************)
(* Money: formatting and text decoding.                                    *)
(***************************************************************************)
TextAmounts ==
    (-MaxTextAmt..MaxTextAmt)
        \cup {10001, -10001, 15050, -15050, 99999, -99999}
        \cup {MinInt64, MinInt64 + 1, MaxInt64, MaxInt64 - 1}

\* an encoder was called on the receiver: kind names it, enc is its output
Encoded(kind, enc) ==
    /\ text' = enc
    /\ src' = [kind |-> kind, val |-> m]
    /\ op' = kind
    /\ err' = "nil"
    /\ arg' = 0
    /\ ret' = 0
    /\ parts' = <<>>
    /\ UNCHANGED m
    /\ IdleUUID

\* m.String()
DoString == Encoded("String", MoneyString(m))

\* m.Format()
DoFormat == Encoded("Format", Format(m))

\* m.MarshalJSON()
DoMarshalJSON == Encoded("MarshalJSON", MarshalJSON(m))

\* m.UnmarshalText(data), data coming from origin
DoUnmarshalText(data, origin) ==
    /\ LET r == UnmarshalText(m, data)
       IN  m' = r.centavos /\ err' = r.err
    /\ text' = data
    /\ src' = origin
    /\ op' = "UnmarshalText"
    /\ arg' = 0
    /\ ret' = 0
    /\ parts' = <<>>
    /\ IdleUUID

\* the text an encoder produced is decoded
DecodeEncoded ==
    /\ op \in {"String", "Format", "MarshalJSON"}
    /\ DoUnmarshalText(text, src)

NextText ==
    \/ \E c \in TextAmounts : FromCentavos(c)
    \/ DoString
    \/ DoFormat
    \/ DoMarshalJSON
    \/ DecodeEncoded

SpecText == InitMoney /\ [][NextText]_vars

(***************************************************************************)
(* Money: decoding the texts a caller supplies.  An input is described by  *)
(* its pieces; InputText is the string the caller passes.                  *)
(***************************************************************************)
RECURSIVE Zeros(_)
Zeros(n) == IF n = 0 THEN <<>> ELSE <<"0">> \o Zeros(n - 1)

\* minor parts: up to MaxMinorLen digits drawn from MinorDigits
MinorDigits == {0, 5, 9}
Minors == UNION {[1..n -> MinorDigits] : n \in 0..MaxMinorLen}

Majors == {0, 7, 150, Quo(MaxInt64, CentavosPerMZN),
           Quo(MaxInt64, CentavosPerMZN) + 1, MaxInt64}

Pads == {<<>>, <<" ">>}
Signs == {<<>>, <<"-">>, <<"+">>}
Suffixes == {<<>>, SuffixMZN, BareMZN}

DecimalInputs ==
    [kind : {"input"}, pad : Pads, sign : Signs, zeros : 0..MaxLeadingZeros,
     major : Majors, dot : {TRUE}, minor : Minors, suffix : Suffixes]

IntegerInputs ==
    [kind : {"input"}, pad : Pads, sign : Signs, zeros : 0..MaxLeadingZeros,
     major : Majors \cup {MaxInt64 + 1}, dot : {FALSE}, minor : {<<>>},
     suffix : Suffixes]

BlankInputs == [kind : {"blank"}, blank : {<<>>, <<" ">>, <<" ", "\t">>, <<"\n">>}]

\* the input as the caller writes it: padded with white space on both sides
InputText(in) ==
    IF in.kind = "blank" THEN in.blank
    ELSE in.pad \o in.sign \o Zeros(in.zeros) \o Itoa(in.major)
         \o (IF in.dot THEN <<".">> \o [i \in 1..Len(in.minor) |->
                                          DigitChars[in.minor[i] + 1]]
             ELSE <<>>)
         \o in.suffix \o in.pad

ParseReceivers == {0, 7, -7}

\* a caller decodes a decimal input into a newly constructed receiver
DecodeDecimal ==
    /\ op \in {"Zero", "FromCentavos"}
    /\ \E in \in DecimalInputs : DoUnmarshalText(InputText(in), in)

\* a caller decodes an input without a point into a new receiver
DecodeInteger ==
    /\ op \in {"Zero", "FromCentavos"}
    /\ \E in \in IntegerInputs : DoUnmarshalText(InputText(in), in)

\* a caller decodes an empty or white-space input into a new receiver
DecodeBlank ==
    /\ op \in {"Zero", "FromCentavos"}
    /\ \E in \in BlankInputs : DoUnmarshalText(InputText(in), in)

NextParse ==
    \/ \E c \in ParseReceivers : FromCentavos(c)
    \/ DecodeDecimal
    \/ DecodeInteger
    \/ DecodeBlank

SpecParse == InitMoney /\ [][NextParse]_vars

(***************************************************************************)
(* The typed IDs: UserID ... TicketID each hold one UUID and forward to    *)
(* it.  t names the type; "UUID" is the primitive itself.                  *)
(***************************************************************************)
TypedIDs == {"UserID", "DriverID", "RideID", "VehicleID", "PaymentID",
             "DocumentID", "IncidentID", "TicketID"}

\* fmt.Errorf("invalid <Type>ID: %w", err) of Parse<Type>ID
WrapInvalid(t) ==
    CASE t = "UserID" -> "invalid UserID: ErrInvalidUUID"
      [] t = "DriverID" -> "invalid DriverID: ErrInvalidUUID"
      [] t = "RideID" -> "invalid RideID: ErrInvalidUUID"
      [] t = "VehicleID" -> "invalid VehicleID: ErrInvalidUUID"
      [] t = "PaymentID" -> "invalid PaymentID: ErrInvalidUUID"
      [] t = "DocumentID" -> "invalid DocumentID: ErrInvalidUUID"
      [] t = "IncidentID" -> "invalid IncidentID: ErrInvalidUUID"
      [] t = "TicketID" -> "invalid TicketID: ErrInvalidUUID"

\* NewUUID / New<Type>ID
NewID(t, read) ==
    IF t = "UUID" THEN NewUUID(read)
    ELSE LET r == NewUUID(read)
         IN  IF r.err # "nil" THEN [uuid |-> zeroUUID, err |-> r.err]
             ELSE [uuid |-> r.uuid, err |-> "nil"]

\* errors.Unwrap of an error of this package: the error a %w wraps
Unwrap(e) ==
    IF \E t \in TypedIDs : e = WrapInvalid(t) THEN "ErrInvalidUUID" ELSE "none"

\* errors.Is(e, target)
ErrorsIs(e, target) == e = target \/ Unwrap(e) = target

\* mutant: Parse<Type>ID returns the error of ParseUUID as it is
ParseIDBare(t, s) ==
    IF t = "UUID" THEN ParseUUID(s)
    ELSE LET r == ParseUUID(s)
         IN  IF r.err # "nil" THEN [uuid |-> zeroUUID, err |-> r.err]
             ELSE [uuid |-> r.uuid, err |-> "nil"]

\* ParseUUID / Parse<Type>ID
ParseID(t, s) ==
    IF t = "UUID" THEN ParseUUID(s)
    ELSE LET r == ParseUUID(s)
         IN  IF r.err # "nil" THEN [uuid |-> zeroUUID, err |-> WrapInvalid(t)]
             ELSE [uuid |-> r.uuid, err |-> "nil"]

\* MustParseUUID / MustParse<Type>ID: the result of Parse, or a panic
MustParseID(t, s) ==
    LET r == ParseID(t, s)
    IN  IF r.err # "nil" THEN [panic |-> TRUE, uuid |-> zeroUUID]
        ELSE [panic |-> FALSE, uuid |-> r.uuid]

\* mutant: a failed read is followed by a second read of the random source
NewIDRetrying(t, source) ==
    LET r == NewID(t, Head(source))
    IN  IF r.err # "nil" /\ Len(source) > 1
        THEN LET again == NewID(t, source[2])
             IN  [uuid |-> again.uuid, err |-> again.err, left |-> Tail(Tail(source))]
        ELSE [uuid |-> r.uuid, err |-> r.err, left |-> Tail(source)]

\* NewUUID / New<Type>ID on a random source whose successive reads would
\* deliver the outcomes of source: io.ReadFull is called once, left is
\* what the source has yet to deliver
NewIDReading(t, source) ==
    LET r == NewID(t, Head(source))
    IN  [uuid |-> r.uuid, err |-> r.err, left |-> Tail(source)]

\* MustNewUUID / MustNew<Type>ID: the result of NewUUID, or a panic with
\* its error
MustNewID(t, source) ==
    LET r == NewIDReading("UUID", source)
    IN  IF r.err # "nil" THEN [panic |-> TRUE, uuid |-> zeroUUID, left |-> r.left]
        ELSE [panic |-> FALSE, uuid |-> r.uuid, left |-> r.left]

\* mutant: one typed ID compares only the first byte
IDIsZeroTicketFirstByte(t, id) ==
    IF t = "TicketID" THEN IsZeroFirstByte(id) ELSE IsZero(id)

\* the forwarding methods: func (id <Type>ID) X() { return id.uuid.X() }
IDIsZero(t, id) == IsZero(id)
IDString(t, id) == UUIDString(id)
IDMarshalJSON(t, id) == UUIDMarshalJSON(id)
IDMarshalText(t, id) == UUIDMarshalText(id)
IDValue(t, id) == UUIDValue(id)
IDUnmarshalJSON(t, id0, data) == UUIDUnmarshalJSON(id0, data)
IDUnmarshalText(t, id0, data) == UUIDUnmarshalText(id0, data)

\* mutant: one typed ID scans every []byte as a text
IDScanDriverTextOnly(t, id0, from) ==
    IF t = "DriverID" THEN ScanBytesAsText(id0, from) ELSE Scan(id0, from)

IDScan(t, id0, from) == Scan(id0, from)

(***************************************************************************)
(* ids: the operations.  A receiver is declared (the zero value), then     *)
(* constructed by New or Parse, encoded, and the encoding decoded again,   *)
(* into the same receiver or into a newly declared one.                    *)
(***************************************************************************)
InitUUID == InitMoney

\* var id T: the zero value of type t
Declare(t) ==
    /\ u' = zeroUUID
    /\ typ' = t
    /\ ok' = FALSE
    /\ op' = "Zero"
    /\ err' = "nil"
    /\ text' = <<>>
    /\ src' = [kind |-> "none"]
    /\ arg' = 0
    /\ IdleMoney

\* id, err := New(): the random source delivers 16 bytes
Generate(reads) ==
    /\ op = "Zero"
    /\ \E b \in reads :
           LET r == NewID(typ, [ok |-> TRUE, bytes |-> b])
           IN  /\ u' = r.uuid
               /\ err' = r.err
               /\ src' = [kind |-> "read", bytes |-> b]
    /\ op' = "New"
    /\ text' = <<>>
    /\ ok' = FALSE
    /\ arg' = 0
    /\ UNCHANGED typ
    /\ IdleMoney

\* id, err := New(): the random source fails
GenerateFail ==
    /\ op = "Zero"
    /\ LET r == NewID(typ, [ok |-> FALSE, bytes |-> <<>>])
       IN  /\ u' = r.uuid
           /\ err' = r.err
    /\ src' = [kind |-> "readfail"]
    /\ op' = "New"
    /\ text' = <<>>
    /\ ok' = FALSE
    /\ arg' = 0
    /\ UNCHANGED typ
    /\ IdleMoney

\* id, err := Parse(data), data coming from origin
DoParse(data, origin) ==
    /\ LET r == ParseID(typ, data)
       IN  /\ u' = r.uuid
           /\ err' = r.err
    /\ text' = data
    /\ src' = origin
    /\ op' = "Parse"
    /\ ok' = FALSE
    /\ arg' = 0
    /\ UNCHANGED typ
    /\ IdleMoney

\* a decoding method was called on the receiver: r is the identifier it
\* holds afterwards and the error
Decoded(name, r) ==
    /\ u' = r.uuid
    /\ err' = r.err
    /\ op' = name
    /\ ok' = FALSE
    /\ arg' = 0
    /\ UNCHANGED <<typ, text, src>>
    /\ IdleMoney

\* an encoder was called on the receiver: kind names it, enc is its output
EncodedID(kind, enc) ==
    /\ op \in {"Zero", "New", "Parse"}
    /\ text' = enc
    /\ src' = [kind |-> kind, val |-> u]
    /\ op' = kind
    /\ err' = "nil"
    /\ ok' = FALSE
    /\ arg' = 0
    /\ UNCHANGED <<u, typ>>
    /\ IdleMoney

DoIDString == EncodedID("ID.String", IDString(typ, u))
DoIDMarshalJSON == EncodedID("ID.MarshalJSON", IDMarshalJSON(typ, u))
DoIDMarshalText == EncodedID("ID.MarshalText", IDMarshalText(typ, u))
DoIDValue == EncodedID("ID.Value", IDValue(typ, u))
\* u.Bytes()
DoBytes == typ = "UUID" /\ EncodedID("ID.Bytes", Bytes(u))
\* the caller's compact form: hex.EncodeToString(u.Bytes())
DoCompact == typ = "UUID" /\ EncodedID("ID.Compact", HexEncode(Bytes(u)))

\* id.IsZero()
DoIsZero ==
    /\ op \in {"Zero", "New", "Parse"}
    /\ ok' = IDIsZero(typ, u)
    /\ op' = "ID.IsZero"
    /\ err' = "nil"
    /\ arg' = 0
    /\ UNCHANGED <<u, typ, text, src>>
    /\ IdleMoney

TextEncoders == {"ID.String", "ID.MarshalJSON", "ID.MarshalText", "ID.Value",
                 "ID.Compact"}
Encoders == TextEncoders \cup {"ID.Bytes"}

\* var y T: the encoding is about to be decoded into a new receiver
Fresh ==
    /\ op \in Encoders
    /\ u' = zeroUUID
    /\ op' = "Fresh"
    /\ UNCHANGED <<typ, ok, err, text, src, arg>>
    /\ IdleMoney

Pending == op \in Encoders \cup {"Fresh"}

\* Parse(text) of an encoding
ParseEncoded ==
    /\ Pending /\ src.kind \in TextEncoders
    /\ DoParse(text, src)

\* id.UnmarshalJSON(text)
DoIDUnmarshalJSON ==
    /\ Pending /\ src.kind \in TextEncoders
    /\ Decoded("ID.UnmarshalJSON", IDUnmarshalJSON(typ, u, text))

\* id.UnmarshalText(text)
DoIDUnmarshalText ==
    /\ Pending /\ src.kind \in TextEncoders
    /\ Decoded("ID.UnmarshalText", IDUnmarshalText(typ, u, text))

\* id.Scan(text) with text as a string
ScanString ==
    /\ Pending /\ src.kind \in TextEncoders
    /\ Decoded("ID.ScanString", IDScan(typ, u, [type |-> "string", v |-> text]))

\* id.Scan(b) with a []byte: the raw 16 bytes, or the bytes of a text
ScanBytes ==
    /\ Pending
    /\ Decoded("ID.ScanBytes",
               IDScan(typ, u, [type |-> "bytes",
                               v |-> IF src.kind = "ID.Bytes" THEN text
                                     ELSE BytesOf(text)]))

(***************************************************************************)
(* The bytes the random source delivers and the strings callers parse.     *)
(***************************************************************************)
ByteSamples == {0, 1, 15, 64, 79, 128, 165, 255}

\* one byte x at position p, every other byte f
OneByte(p, x, f) == [i \in 1..UUIDLen |-> IF i = p THEN x ELSE f]

\* every value of byte 6 and of byte 8, and sample bytes at every position
Reads ==
    {OneByte(p, x, 0) : p \in {7, 9}, x \in 0..255}
        \cup {OneByte(p, x, f) : p \in 1..UUIDLen, x \in ByteSamples, f \in {0, 255}}

FewReads == {OneByte(p, x, 0) : p \in 1..UUIDLen, x \in {0, 255}}

ToUpper(s) ==
    [i \in 1..Len(s) |->
        IF FromHexChar(s[i]) >= 10 THEN UpperHexChars[FromHexChar(s[i]) + 1]
        ELSE s[i]]

\* the identifiers callers write down
Bases == {zeroUUID, OneByte(1, 171, 255), [i \in 1..UUIDLen |-> 17 * (i - 1)]}
FewBases == {OneByte(p, x, 0) : p \in 1..UUIDLen, x \in {0, 1}}

TamperChars == {"-", "g", "0", " "}

\* what a caller does to a well-formed string before passing it
NoTamper == [how |-> "none", i |-> 0, ch |-> "0"]

Tampers ==
    {NoTamper}
        \cup [how : {"replace"}, i : 1..36, ch : TamperChars]
        \cup [how : {"remove"}, i : 1..36, ch : {"0"}]
        \cup [how : {"insert"}, i : 1..36, ch : {"-", "0"}]

FewTampers == {NoTamper, [how |-> "replace", i |-> 36, ch |-> "g"]}

Tamper(s, tm) ==
    IF tm.how = "none" \/ tm.i > Len(s) THEN s
    ELSE IF tm.how = "replace" THEN [s EXCEPT ![tm.i] = tm.ch]
    ELSE IF tm.how = "remove" THEN SubSeq(s, 1, tm.i - 1) \o SubSeq(s, tm.i + 1, Len(s))
    ELSE SubSeq(s, 1, tm.i) \o <<tm.ch>> \o SubSeq(s, tm.i + 1, Len(s))

IDInputs(bases, tampers) ==
    [kind : {"input"}, base : bases, hyphens : BOOLEAN, upper : BOOLEAN,
     tamper : tampers]

WrittenID(in) ==
    LET lower == IF in.hyphens THEN UUIDString(in.base) ELSE HexEncode(in.base)
    IN  IF in.upper THEN ToUpper(lower) ELSE lower

IDInputText(in) == Tamper(WrittenID(in), in.tamper)

\* a caller parses a string it wrote or received
ParseInput(bases, tampers) ==
    /\ op = "Zero"
    /\ \E in \in IDInputs(bases, tampers) : DoParse(IDInputText(in), in)

NextUUID ==
    \/ Declare("UUID")
    \/ Generate(Reads)
    \/ GenerateFail
    \/ ParseInput(Bases, Tampers)
    \/ DoIDString
    \/ DoIDMarshalJSON
    \/ DoIDMarshalText
    \/ DoIDValue
    \/ DoBytes
    \/ DoCompact
    \/ DoIsZero
    \/ Fresh
    \/ ParseEncoded
    \/ DoIDUnmarshalJSON
    \/ DoIDUnmarshalText
    \/ ScanString
    \/ ScanBytes

SpecUUID == InitUUID /\ [][NextUUID]_vars

NextTyped ==
    \/ \E t \in TypedIDs \cup {"UUID"} : Declare(t)
    \/ Generate(FewReads)
    \/ GenerateFail
    \/ ParseInput(FewBases, FewTampers)
    \/ DoIDString
    \/ DoIDMarshalJSON
    \/ DoIDMarshalText
    \/ DoIDValue
    \/ DoIsZero
    \/ Fresh
    \/ ParseEncoded
    \/ DoIDUnmarshalJSON
    \/ DoIDUnmarshalText
    \/ ScanString
    \/ ScanBytes

SpecTyped == InitUUID /\ [][NextTyped]_vars

(***************************************************************************)
(* Decoding what a caller supplies into a receiver that already holds a    *)
(* value.  One receiver is in use at a time, an identifier or an amount;   *)
(* src records the input and the value the receiver held before the call.  *)
(***************************************************************************)
IDLiterals ==
    {<<"1", "2", "3", "4", "5">>,
     <<"z", "z", "z", "z">>,
     <<>>,
     <<"n", "u", "l", "l">>,
     <<"1", "2", "3">>,
     <<"0", "1", "2", "3", "4", "5", "6", "7", "8", "9", "a", "b", "c", "d", "e", "f">>}

DecodeTexts == IDInputs(Bases, FewTampers) \cup [kind : {"literal"}, lit : IDLiterals]

TextOfInput(in) == IF in.kind = "literal" THEN in.lit ELSE IDInputText(in)

\* []byte sources that are not the bytes of a text: 16 bytes, 15 and 17
RawBytes ==
    {zeroUUID, OneByte(1, 171, 255), [i \in 1..UUIDLen |-> 17 * (i - 1)],
     BytesOf(<<"0", "1", "2", "3", "4", "5", "6", "7", "8", "9", "a", "b", "c", "d", "e", "f">>),
     [i \in 1..(UUIDLen - 1) |-> 1], [i \in 1..(UUIDLen + 1) |-> 1]}

DecodeReads == {OneByte(1, 171, 255), OneByte(16, 1, 0)}

\* var id T, no amount being in use
IDReceiver(t) == m = 0 /\ Declare(t)

\* id, err := New(), no amount being in use
GenerateID == m = 0 /\ Generate(DecodeReads)

\* a decoding method was called with a caller's input
DecodedFrom(name, r, data, origin) ==
    /\ u' = r.uuid
    /\ err' = r.err
    /\ op' = name
    /\ ok' = FALSE
    /\ arg' = 0
    /\ text' = data
    /\ src' = origin
    /\ UNCHANGED typ
    /\ IdleMoney

\* id, err := Parse(s)
ParseText ==
    /\ op = "Zero" /\ m = 0
    /\ \E in \in DecodeTexts :
           DoParse(TextOfInput(in),
                   [kind |-> "decode", form |-> "parse", in |-> in, before |-> u])

\* id.UnmarshalJSON(data): the text as a JSON string, or bare
UnmarshalJSONInput ==
    /\ op \in {"Zero", "New"} /\ m = 0
    /\ \E in \in DecodeTexts, quoted \in BOOLEAN :
           LET data == IF quoted THEN Quote \o TextOfInput(in) \o Quote
                       ELSE TextOfInput(in)
           IN  DecodedFrom("ID.UnmarshalJSON", IDUnmarshalJSON(typ, u, data), data,
                           [kind |-> "decode",
                            form |-> IF quoted THEN "quoted" ELSE "bare",
                            in |-> in, before |-> u])

\* id.UnmarshalText(data)
UnmarshalTextInput ==
    /\ op \in {"Zero", "New"} /\ m = 0
    /\ \E in \in DecodeTexts :
           DecodedFrom("ID.UnmarshalText",
                       IDUnmarshalText(typ, u, TextOfInput(in)), TextOfInput(in),
                       [kind |-> "decode", form |-> "text", in |-> in, before |-> u])

\* id.Scan(src) with a text as a string or as a []byte
ScanText ==
    /\ op \in {"Zero", "New"} /\ m = 0
    /\ \E in \in DecodeTexts, form \in {"string", "bytes"} :
           DecodedFrom("ID.Scan",
                       IDScan(typ, u,
                              [type |-> form,
                               v |-> IF form = "bytes" THEN BytesOf(TextOfInput(in))
                                     ELSE TextOfInput(in)]),
                       TextOfInput(in),
                       [kind |-> "decode", form |-> form, in |-> in, before |-> u])

\* id.Scan(src) with a []byte of raw bytes
ScanRaw ==
    /\ op \in {"Zero", "New"} /\ m = 0
    /\ \E b \in RawBytes :
           DecodedFrom("ID.Scan", IDScan(typ, u, [type |-> "bytes", v |-> b]), b,
                       [kind |-> "decode", form |-> "raw", before |-> u])

\* id.Scan(nil)
ScanNil ==
    /\ op \in {"Zero", "New"} /\ m = 0
    /\ DecodedFrom("ID.Scan", IDScan(typ, u, [type |-> "nil", v |-> <<>>]), <<>>,
                   [kind |-> "decode", form |-> "nil", before |-> u])

\* id.Scan(src) with a source of another type: an int, a bool
ScanOther ==
    /\ op \in {"Zero", "New"} /\ m = 0
    /\ \E other \in {"int", "bool"} :
           DecodedFrom("ID.Scan", IDScan(typ, u, [type |-> other, v |-> <<>>]), <<>>,
                       [kind |-> "decode", form |-> "other", before |-> u])

\* the texts callers decode amounts from
MoneyLiterals ==
    {<<"a", "b", "c">>,
     <<"1", ".", "2", ".", "3">>,
     <<"x", ".", "5", "0">>,
     <<"1", ".", "x", "x">>,
     <<>>,
     <<"1", "5", "0", ".", "5", "0", " ", "M", "Z", "N">>,
     <<"1", "5", "0", "5", "0">>,
     <<"-", "1", "5", "0", "5", "0">>,
     <<"n", "u", "l", "l">>,
     <<"\"", "1", "5", "0", "\"">>,
     <<"\"", "i", "n", "v", "a", "l", "i", "d", "\"">>,
     <<" ", "4", "2", " ">>,
     <<"1", ".", "5">>,
     <<"9", "9", "9", "9", "9", "9", "9", "9">>,
     <<"-", "-", "5">>,
     <<"M", "Z", "N">>,
     <<"1", "5", "0", ".", "5", "0", ".", "0", "0">>,
     <<".", "5", "0">>,
     <<"-", ".", "5", "0">>,
     <<"a", "b", "c", ".", "5", "0">>,
     <<"1", ".", "5", "0", "x">>,
     <<"1", ".", "5", "x">>,
     <<"1", ".", "-", "5">>,
     <<"-", "1", ".", "-", "5">>,
     <<"1", ".", "+", "5">>,
     <<"1", ".", "5", "0", "5">>,
     <<"+", "1", ".", "5", " ", "M", "Z", "N">>}

\* the storage values callers scan amounts from
MoneySources ==
    [type : {"string", "bytes"}, v : MoneyLiterals]
        \cup [type : {"int64", "int"}, v : {0, 15050, -15050}]
        \cup [type : {"float64"},
              v : {FZero, FloatLit(3, 2), FloatLit(-3, 2), FloatLit(1505, 10)}]
        \cup [type : {"float64"}, v : {FloatLit(150, 1), FloatLit(-150, 1)}]
        \cup [type : {"int32", "int16", "uint64", "float32"}, v : {150}]
        \cup [type : {"nil", "bool", "uint"}, v : {0}]

\* var x Money = FromCentavos(c), no identifier being in use
MoneyReceiver(c) == u = zeroUUID /\ typ = "UUID" /\ FromCentavos(c)

\* a decoding method of Money was called: r is the amount the receiver
\* holds afterwards and the error
DecodedMoney(name, r, data, origin) ==
    /\ m' = r.centavos
    /\ err' = r.err
    /\ text' = data
    /\ src' = origin
    /\ op' = name
    /\ arg' = 0
    /\ ret' = 0
    /\ parts' = <<>>
    /\ IdleUUID

\* m.UnmarshalJSON(data)
DoUnmarshalJSON(data, origin) ==
    DecodedMoney("UnmarshalJSON", UnmarshalJSON(m, data), data, origin)

\* m.Scan(src)
DoMoneyScan(from, origin) ==
    DecodedMoney("Scan", MoneyScan(m, from),
                 IF from.type \in {"string", "bytes"} THEN from.v ELSE <<>>, origin)

MoneyInUse == op \in {"Zero", "FromCentavos"} /\ u = zeroUUID /\ typ = "UUID"

MoneyTextInput ==
    /\ MoneyInUse
    /\ \E lit \in MoneyLiterals :
           DoUnmarshalText(lit, [kind |-> "decode", form |-> "text", lit |-> lit,
                                 before |-> m])

MoneyJSONInput ==
    /\ MoneyInUse
    /\ \E lit \in MoneyLiterals :
           DoUnmarshalJSON(lit, [kind |-> "decode", form |-> "json", lit |-> lit,
                                 before |-> m])

MoneyScanInput ==
    /\ MoneyInUse
    /\ \E from \in MoneySources :
           DoMoneyScan(from, [kind |-> "decode", form |-> "scan", from |-> from,
                              before |-> m])

NextDecode ==
    \/ \E t \in TypedIDs \cup {"UUID"} : IDReceiver(t)
    \/ GenerateID
    \/ ParseText
    \/ UnmarshalJSONInput
    \/ UnmarshalTextInput
    \/ ScanText
    \/ ScanRaw
    \/ ScanNil
    \/ ScanOther
    \/ \E c \in ParseReceivers : MoneyReceiver(c)
    \/ MoneyTextInput
    \/ MoneyJSONInput
    \/ MoneyScanInput

SpecDecode == InitUUID /\ [][NextDecode]_vars

(***************************************************************************)
(* Money: the JSON and text marshaling of an amount, and the JSON a caller *)
(* supplies.                                                               *)
(***************************************************************************)
\* m.MarshalText()
DoMarshalText == Encoded("MarshalText", MarshalText(m))

\* the receivers JSON is decoded into
JSONReceivers == {0, 7}

\* y.UnmarshalJSON(text) with the output of MarshalJSON, y holding c0
DecodeJSON ==
    /\ op = "MarshalJSON"
    /\ \E c0 \in JSONReceivers :
           DecodedMoney("UnmarshalJSON", UnmarshalJSON(c0, text), text,
                        [kind |-> "MarshalJSON", val |-> src.val, before |-> c0])

NextJSON ==
    \/ \E c \in TextAmounts : FromCentavos(c)
    \/ DoMarshalJSON
    \/ DoMarshalText
    \/ DecodeJSON
    \/ MoneyJSONInput

SpecJSON == InitMoney /\ [][NextJSON]_vars

(***************************************************************************)
(* ids: every operation of the primitive and of the eight typed IDs, on    *)
(* the inputs callers supply.                                              *)
(***************************************************************************)
NextWrap ==
    \/ \E t \in TypedIDs \cup {"UUID"} : IDReceiver(t)
    \/ GenerateID
    \/ GenerateFail
    \/ ParseText
    \/ UnmarshalJSONInput
    \/ UnmarshalTextInput
    \/ ScanText
    \/ ScanRaw
    \/ ScanNil
    \/ ScanOther
    \/ DoIDString
    \/ DoIDMarshalJSON
    \/ DoIDMarshalText
    \/ DoIDValue
    \/ DoIsZero

SpecWrap == InitUUID /\ [][NextWrap]_vars

(***************************************************************************)
(* ids: parsing one identifier written in several letter cases, and the    *)
(* string of the identifier parsed.                                        *)
(***************************************************************************)
\* the upper-case form of a hex letter; any other character as it is
UpperOf(ch) ==
    IF \E d \in 11..16 : HexChars[d] = ch
    THEN UpperHexChars[CHOOSE d \in 11..16 : HexChars[d] = ch]
    ELSE ch

Casings == {"lower", "upper", "odd", "even"}

\* s with its letters in upper case: all, none, or every second one
Recase(s, casing) ==
    [i \in 1..Len(s) |->
        IF \/ casing = "upper"
           \/ casing = "odd" /\ i % 2 = 1
           \/ casing = "even" /\ i % 2 = 0
        THEN UpperOf(s[i]) ELSE s[i]]

CaseBases ==
    Bases \cup {OneByte(p, x, 0) : p \in {1, 8, 16}, x \in {10, 171, 205, 239, 250}}

CaseInputs ==
    [kind : {"cased"}, base : CaseBases, hyphens : BOOLEAN, casing : Casings]

CasedText(in) ==
    Recase(IF in.hyphens THEN UUIDString(in.base) ELSE HexEncode(in.base),
           in.casing)

\* id, err := Parse(s) with s in one of the letter cases
ParseCased ==
    /\ op = "Zero"
    /\ \E in \in CaseInputs : DoParse(CasedText(in), in)

\* id.String() of the identifier just parsed from the string s
StringOfParsed ==
    /\ op = "Parse" /\ err = "nil" /\ src.kind = "cased"
    /\ text' = IDString(typ, u)
    /\ src' = [kind |-> "parsed", in |-> src, s |-> text]
    /\ op' = "ID.String"
    /\ err' = "nil"
    /\ ok' = FALSE
    /\ arg' = 0
    /\ UNCHANGED <<u, typ>>
    /\ IdleMoney

NextCase ==
    \/ \E t \in TypedIDs \cup {"UUID"} : Declare(t)
    \/ ParseCased
    \/ StringOfParsed

SpecCase == InitUUID /\ [][NextCase]_vars

(***************************************************************************)
(* The Must variants beside the operations they wrap.  A call that panics  *)
(* does not return: err is "panic" and nothing is assigned.                *)
(***************************************************************************)
\* what two successive reads of the random source would deliver
ReadOutcomes ==
    {[ok |-> FALSE, bytes |-> <<>>]} \cup [ok : {TRUE}, bytes : DecodeReads]

Sources == {<<a, b>> : a \in ReadOutcomes, b \in ReadOutcomes}

\* id, err := New() on a random source
GenerateFrom ==
    /\ op = "Zero" /\ m = 0
    /\ \E source \in Sources :
           LET r == NewIDReading(typ, source)
           IN  /\ u' = r.uuid
               /\ err' = r.err
               /\ src' = [kind |-> "source", outcomes |-> source, left |-> r.left]
    /\ op' = "New"
    /\ text' = <<>>
    /\ ok' = FALSE
    /\ arg' = 0
    /\ UNCHANGED typ
    /\ IdleMoney

\* id := MustNew() on a random source
MustGenerate ==
    /\ op = "Zero" /\ m = 0
    /\ \E source \in Sources :
           LET r == MustNewID(typ, source)
           IN  /\ u' = IF r.panic THEN u ELSE r.uuid
               /\ err' = IF r.panic THEN "panic" ELSE "nil"
               /\ src' = [kind |-> "source", outcomes |-> source, left |-> r.left]
    /\ op' = "MustNew"
    /\ text' = <<>>
    /\ ok' = FALSE
    /\ arg' = 0
    /\ UNCHANGED typ
    /\ IdleMoney

\* id := MustParse(s)
MustParseText ==
    /\ op = "Zero" /\ m = 0
    /\ \E in \in DecodeTexts :
           LET r == MustParseID(typ, TextOfInput(in))
           IN  /\ u' = IF r.panic THEN u ELSE r.uuid
               /\ err' = IF r.panic THEN "panic" ELSE "nil"
               /\ text' = TextOfInput(in)
               /\ src' = [kind |-> "decode", form |-> "parse", in |-> in,
                          before |-> u]
    /\ op' = "MustParse"
    /\ ok' = FALSE
    /\ arg' = 0
    /\ UNCHANGED typ
    /\ IdleMoney

\* r := m.MustPercentage(rate)
DoMustPercentage(rate) ==
    /\ ret' = MustPercentage(m, rate).money
    /\ err' = IF MustPercentage(m, rate).panic THEN "panic" ELSE "nil"
    /\ arg' = rate
    /\ op' = "MustPercentage"
    /\ parts' = <<>>
    /\ UNCHANGED <<m, text, src>>
    /\ IdleUUID

MustAmounts == {0, 10000, 10001, -10001, MaxInt64, MinInt64}

NextMust ==
    \/ \E t \in TypedIDs \cup {"UUID"} : IDReceiver(t)
    \/ GenerateFrom
    \/ MustGenerate
    \/ ParseText
    \/ MustParseText
    \/ UnmarshalJSONInput
    \/ UnmarshalTextInput
    \/ ScanText
    \/ ScanRaw
    \/ ScanNil
    \/ ScanOther
    \/ \E c \in MustAmounts : MoneyReceiver(c)
    \/ \E rate \in Rates : MoneyInUse /\ DoPercentage(rate)
    \/ \E rate \in Rates : MoneyInUse /\ DoMustPercentage(rate)
    \/ \E n \in Counts : MoneyInUse /\ DoSplit(n)
    \/ MoneyTextInput
    \/ MoneyJSONInput
    \/ MoneyScanInput

SpecMust == InitUUID /\ [][NextMust]_vars

(***************************************************************************)
(* The value operations.  A caller holds an amount m and an operand arg    *)
(* and applies one method; src keeps what the caller held before the call. *)
(* A caller of Bytes writes into the slice and asks for the bytes again.   *)
(***************************************************************************)
ValueAmounts == {0, 1, -1, 150, -150, 10001, MaxInt64, MinInt64, MinInt64 + 1}

Operands == {-1, 0, 1, 2, 3, 100}

Comparisons == {"Equals", "GreaterThan", "GreaterThanOrEqual", "LessThan",
                "LessThanOrEqual", "IsZero", "IsNegative", "IsPositive"}

ValueMethods ==
    {"Add", "Subtract", "Multiply", "MultiplyInt", "Percentage", "Split",
     "Abs", "Negate", "String", "Format", "MarshalJSON", "MarshalText",
     "Value"} \cup Comparisons

NoResult == [ret |-> 0, parts |-> <<>>, text |-> <<>>, flag |-> FALSE,
             err |-> "nil"]

\* what the method name of Money returns for the amount c and the operand x
MoneyCall(name, c, x, fused) ==
    CASE name = "Add" -> [NoResult EXCEPT !.ret = Add(c, x)]
      [] name = "Subtract" -> [NoResult EXCEPT !.ret = Subtract(c, x)]
      [] name = "Multiply" ->
            [NoResult EXCEPT !.ret = Multiply(c, Float64OfInt(x), fused)]
      [] name = "MultiplyInt" -> [NoResult EXCEPT !.ret = MultiplyInt(c, x)]
      [] name = "Percentage" ->
            [NoResult EXCEPT !.ret = Percentage(c, x).money,
                             !.err = Percentage(c, x).err]
      [] name = "Split" ->
            [NoResult EXCEPT !.parts = Split(c, x).parts,
                             !.err = Split(c, x).err]
      [] name = "Abs" -> [NoResult EXCEPT !.ret = Abs(c)]
      [] name = "Negate" -> [NoResult EXCEPT !.ret = Negate(c)]
      [] name = "String" -> [NoResult EXCEPT !.text = MoneyString(c)]
      [] name = "Format" -> [NoResult EXCEPT !.text = Format(c)]
      [] name = "MarshalJSON" -> [NoResult EXCEPT !.text = MarshalJSON(c)]
      [] name = "MarshalText" -> [NoResult EXCEPT !.text = MarshalText(c)]
      [] name = "Value" -> [NoResult EXCEPT !.ret = MoneyValue(c).v]
      [] name \in Comparisons ->
            [NoResult EXCEPT !.flag = Comparison(name, c, x)]

\* other := FromCentavos(x), or an int the caller is about to pass
Operand(x) ==
    /\ op = "FromCentavos" /\ u = zeroUUID /\ typ = "UUID"
    /\ arg' = x
    /\ op' = "Operand"
    /\ ret' = 0
    /\ err' = "nil"
    /\ parts' = <<>>
    /\ text' = <<>>
    /\ src' = [kind |-> "none"]
    /\ UNCHANGED m
    /\ IdleUUID

\* r := m.name(arg)
CallValue(name) ==
    /\ op = "Operand"
    /\ name = "Multiply" => FitsInt64(FMul(Float64OfInt(m), Float64OfInt(arg)))
    /\ \E fused \in (IF name = "Multiply" THEN BOOLEAN ELSE {FALSE}) :
           LET r == MoneyCall(name, m, arg, fused)
           IN  /\ ret' = r.ret
               /\ parts' = r.parts
               /\ text' = r.text
               /\ ok' = r.flag
               /\ err' = r.err
    /\ op' = name
    /\ src' = [kind |-> "call", recv |-> m, operand |-> arg]
    /\ UNCHANGED <<m, arg, u, typ>>

\* y := x.Negate() or y := x.Abs() on the result x of the call before
CallAgain(name) ==
    /\ op \in {"Negate", "Abs"}
    /\ src.kind = "call"
    /\ ret' = MoneyCall(name, ret, arg, FALSE).ret
    /\ src' = [kind |-> "twice", recv |-> m, operand |-> arg, first |-> op,
               mid |-> ret]
    /\ op' = name
    /\ err' = "nil"
    /\ parts' = <<>>
    /\ text' = <<>>
    /\ ok' = FALSE
    /\ UNCHANGED <<m, arg, u, typ>>

\* b := u.Bytes()
TakeBytes ==
    /\ op \in {"Zero", "New", "Parse"} /\ typ = "UUID" /\ m = 0
    /\ text' = BytesSlice(u).data
    /\ src' = [kind |-> "slice", val |-> u, shared |-> BytesSlice(u).shared]
    /\ op' = "Bytes"
    /\ err' = "nil"
    /\ ok' = FALSE
    /\ arg' = 0
    /\ UNCHANGED <<u, typ>>
    /\ IdleMoney

\* b[i] = x: the write reaches the identifier only through shared storage
WriteSlice ==
    /\ op = "Bytes"
    /\ \E i \in {1, UUIDLen}, x \in {0, 255} :
           /\ text[i] # x
           /\ text' = [text EXCEPT ![i] = x]
           /\ u' = IF src.shared THEN [u EXCEPT ![i] = x] ELSE u
    /\ op' = "WriteSlice"
    /\ err' = "nil"
    /\ ok' = FALSE
    /\ arg' = 0
    /\ UNCHANGED <<typ, src>>
    /\ IdleMoney

\* b2 := u.Bytes() after the write
BytesAgain ==
    /\ op = "WriteSlice"
    /\ text' = BytesSlice(u).data
    /\ src' = [kind |-> "slice again", val |-> src.val, written |-> text]
    /\ op' = "BytesAgain"
    /\ err' = "nil"
    /\ ok' = FALSE
    /\ arg' = 0
    /\ UNCHANGED <<u, typ>>
    /\ IdleMoney

NextValue ==
    \/ \E c \in ValueAmounts : MoneyReceiver(c)
    \/ \E x \in Operands : Operand(x)
    \/ \E name \in ValueMethods : CallValue(name)
    \/ \E name \in {"Negate", "Abs"} : CallAgain(name)
    \/ \E t \in TypedIDs \cup {"UUID"} : IDReceiver(t)
    \/ GenerateID
    \/ ParseText
    \/ DoIDString
    \/ DoIDMarshalJSON
    \/ DoIDMarshalText
    \/ DoIDValue
    \/ DoIsZero
    \/ TakeBytes
    \/ WriteSlice
    \/ BytesAgain

SpecValue == InitUUID /\ [][NextValue]_vars

(***************************************************************************)
(* Money: the storage value of an amount and the storage values scanned.   *)
(***************************************************************************)
\* v, err := m.Value()
DoValue ==
    /\ op = "FromCentavos"
    /\ ret' = MoneyValue(m).v
    /\ src' = [kind |-> "Value", val |-> m, type |-> MoneyValue(m).type]
    /\ op' = "Value"
    /\ err' = "nil"
    /\ arg' = 0
    /\ text' = <<>>
    /\ parts' = <<>>
    /\ UNCHANGED m
    /\ IdleUUID

\* y.Scan(v) with the value Value returned, y holding c0
ScanValue ==
    /\ op = "Value"
    /\ \E c0 \in JSONReceivers :
           DecodedMoney("Scan", MoneyScan(c0, [type |-> src.type, v |-> ret]), <<>>,
                        [kind |-> "Value", val |-> src.val, type |-> src.type,
                         before |-> c0])

NextStore ==
    \/ \E c \in TextAmounts : FromCentavos(c)
    \/ DoValue
    \/ ScanValue
    \/ MoneyScanInput

SpecStore == InitMoney /\ [][NextStore]_vars

(***************************************************************************)
(* C1: for every amount a and every count n > 0, Split(n) returns exactly  *)
(* n parts and the centavos of the parts sum exactly to a.                 *)
(***************************************************************************)
SplitSumExact ==
    (op = "Split" /\ arg > 0) =>
        /\ err = "nil"
        /\ Len(parts) = arg
        /\ SumSeq(parts) = m

\* a negative amount that n does not divide was split into 3 or more parts
SplitSumWitness ==
    /\ op = "Split" /\ err = "nil"
    /\ m < 0 /\ arg >= 3 /\ Rem(m, arg) # 0
    /\ Len(parts) = arg

(***************************************************************************)
(* C2: for 0 <= rate <= 100 and a*rate representable, Percentage(rate) is  *)
(* a*rate/100 rounded to the nearest centavo, halves away from zero: the   *)
(* truncated quotient is moved one unit away from zero exactly when the    *)
(* remainder's magnitude is >= 50.                                         *)
(***************************************************************************)
PercentageRoundsHalfAwayFromZero ==
    (op = "Percentage" /\ arg >= 0 /\ arg <= 100
        /\ m * arg >= MinInt64 /\ m * arg <= MaxInt64) =>
        LET p == m * arg
            q == Quo(p, 100)
            away == IF p >= 0 THEN q + 1 ELSE q - 1
        IN  /\ err = "nil"
            /\ ret = IF AbsInt(p - 100 * q) >= 50 THEN away ELSE q
            \* nearest: the result is within half a centavo of p/100 ...
            /\ 2 * AbsInt(100 * ret - p) <= 100
            \* ... and an exact half went to the larger magnitude
            /\ (2 * AbsInt(100 * ret - p) = 100 => AbsInt(100 * ret) > AbsInt(p))
            /\ (m = 10001 /\ arg = 50 => ret = 5001)
            /\ (m = 10000 /\ arg = 15 => ret = 1500)
            /\ (m = -10001 /\ arg = 50 => ret = -5001)

\* a negative product with a remainder of exactly -50 was rounded
PercentageWitness ==
    /\ op = "Percentage" /\ err = "nil"
    /\ m = -10001 /\ arg = 50 /\ ret = -5001

(***************************************************************************)
(* C7: for n > 0 every part is the floor of a/n, plus one centavo for      *)
(* exactly the first (a mod n) parts: the parts are non-increasing by      *)
(* index and differ by at most one centavo.                                *)
(***************************************************************************)
SplitLeftmostRemainder ==
    (op = "Split" /\ arg > 0) =>
        LET floor == m \div arg
            r == m % arg
        IN  /\ Len(parts) = arg
            /\ \A i \in 1..Len(parts) :
                   parts[i] = IF i <= r THEN floor + 1 ELSE floor
            /\ \A i \in 1..(Len(parts) - 1) : parts[i] >= parts[i + 1]
            /\ \A i, j \in 1..Len(parts) : AbsInt(parts[i] - parts[j]) <= 1
            /\ (m = 10001 /\ arg = 3 => parts = <<3334, 3334, 3333>>)

\* 10001 centavos were split three ways
SplitLeftmostWitness ==
    /\ op = "Split" /\ err = "nil"
    /\ m = 10001 /\ arg = 3 /\ parts = <<3334, 3334, 3333>>

(***************************************************************************)
(* C8: for every amount x, UnmarshalText applied to x.String(), to         *)
(* x.Format() and to the bare integer string of x succeeds and yields x.   *)
(***************************************************************************)
TextRoundTrip ==
    (op = "UnmarshalText" /\ src.kind \in {"String", "Format", "MarshalJSON"}) =>
        /\ err = "nil"
        /\ m = src.val

\* the same, for every amount other than the smallest int64
TextRoundTripAboveMin ==
    (op = "UnmarshalText" /\ src.kind \in {"String", "Format", "MarshalJSON"}
        /\ src.val # MinInt64) =>
        /\ err = "nil"
        /\ m = src.val

(***************************************************************************)
(* C9: UnmarshalText gives zero for a blank input, the integer itself for  *)
(* an input without a point, and sign * (|M| * 100 + mm) for 'M.m', where  *)
(* mm is the minor part padded or truncated to two digits and the sign is  *)
(* negative exactly when the trimmed input starts with '-' (the value      *)
(* taken in int64, as the receiver stores it).                             *)
(***************************************************************************)
MinorValue(minor) ==
    IF Len(minor) = 0 THEN 0
    ELSE IF Len(minor) = 1 THEN 10 * minor[1]
    ELSE 10 * minor[1] + minor[2]

Signed(in, v) == IF in.sign = <<"-">> THEN -v ELSE v

UnmarshalTextComputes ==
    /\ (op = "UnmarshalText" /\ src.kind = "blank") => (err = "nil" /\ m = 0)
    /\ (op = "UnmarshalText" /\ src.kind = "input" /\ ~src.dot
            /\ Signed(src, src.major) \in MinInt64..MaxInt64) =>
           (err = "nil" /\ m = Signed(src, src.major))
    /\ (op = "UnmarshalText" /\ src.kind = "input" /\ src.dot) =>
           /\ err = "nil"
           /\ m = Int64(Signed(src, src.major * 100 + MinorValue(src.minor)))
           /\ (Signed(src, src.major * 100 + MinorValue(src.minor))
                   \in MinInt64..MaxInt64 =>
                   m = Signed(src, src.major * 100 + MinorValue(src.minor)))

\* "-0.5" (padded to 50 centavos, negative although the major part is 0)
\* was decoded into a receiver holding another value
UnmarshalTextWitness ==
    /\ op = "UnmarshalText" /\ src.kind = "input" /\ src.dot
    /\ src.sign = <<"-">> /\ src.major = 0 /\ src.minor = <<5>>
    /\ m = -50 /\ err = "nil"

(***************************************************************************)
(* C10: String() is '<sign><major>.<minor> MZN': '-' exactly for negative  *)
(* amounts, major = |amount| div 100 without leading zeros, minor =        *)
(* |amount| mod 100 as exactly two digits; Format() is the same without    *)
(* the ' MZN'.                                                             *)
(***************************************************************************)
TwoDigits(n) == <<DigitChars[(n \div 10) + 1], DigitChars[(n % 10) + 1]>>

Canonical(x) ==
    (IF x < 0 THEN <<"-">> ELSE <<>>)
        \o Itoa(AbsInt(x) \div 100) \o <<".">> \o TwoDigits(AbsInt(x) % 100)

StringIsCanonical ==
    /\ op = "String" => text = Canonical(m) \o <<" ", "M", "Z", "N">>
    /\ op = "Format" => text = Canonical(m)

\* the same, for every amount other than the smallest int64
StringIsCanonicalAboveMin ==
    /\ (op = "String" /\ m # MinInt64) =>
           text = Canonical(m) \o <<" ", "M", "Z", "N">>
    /\ (op = "Format" /\ m # MinInt64) => text = Canonical(m)

(***************************************************************************)
(* C3: decoding any encoding of an identifier x gives back x: ParseUUID of *)
(* x.String() and of the compact hex form, Scan of x.Bytes(), and the      *)
(* JSON, text and storage (Value/Scan) round trips.                        *)
(***************************************************************************)
RoundTripPairs ==
    {<<"Parse", "ID.String">>, <<"Parse", "ID.Compact">>,
     <<"ID.ScanBytes", "ID.Bytes">>, <<"ID.UnmarshalJSON", "ID.MarshalJSON">>,
     <<"ID.UnmarshalText", "ID.MarshalText">>, <<"ID.ScanString", "ID.Value">>}

IDRoundTrip ==
    <<op, src.kind>> \in RoundTripPairs => (err = "nil" /\ u = src.val)

\* a generated identifier (byte 6 = 0x4f, byte 15 = 0xff) came back from JSON
IDRoundTripWitness ==
    /\ op = "ID.UnmarshalJSON" /\ src.kind = "ID.MarshalJSON"
    /\ err = "nil" /\ u = src.val /\ u[7] = 79 /\ u[16] = 255

(***************************************************************************)
(* C4: ParseUUID succeeds exactly on 32 hex characters and on 36           *)
(* characters with '-' at indices 8, 13, 18, 23 and hex characters         *)
(* elsewhere; every other input returns the zero identifier and the one    *)
(* error ErrInvalidUUID.                                                   *)
(***************************************************************************)
HexAlphabet == {"0", "1", "2", "3", "4", "5", "6", "7", "8", "9",
                "a", "b", "c", "d", "e", "f", "A", "B", "C", "D", "E", "F"}

WellFormedID(s) ==
    \/ Len(s) = 32 /\ \A i \in 1..32 : s[i] \in HexAlphabet
    \/ Len(s) = 36 /\ \A i \in 1..36 :
           IF i - 1 \in {8, 13, 18, 23} THEN s[i] = "-" ELSE s[i] \in HexAlphabet

ParseAcceptsExactlyWellFormed ==
    (op = "Parse" /\ typ = "UUID") =>
        /\ (err = "nil") <=> WellFormedID(text)
        /\ err # "nil" => (u = zeroUUID /\ err = "ErrInvalidUUID")

\* a hyphenated string whose first separator was replaced by a space was
\* rejected
ParseRejectsWitness ==
    /\ op = "Parse" /\ typ = "UUID" /\ src.kind = "input"
    /\ src.hyphens /\ src.tamper.how = "replace" /\ src.tamper.i = 9
    /\ src.tamper.ch = " " /\ text[9] = " "
    /\ err = "ErrInvalidUUID" /\ u = zeroUUID

(***************************************************************************)
(* C5: NewUUID returns the 16 bytes of the random source with byte 6's     *)
(* upper nibble set to 0x4 and byte 8's upper two bits set to binary 10,   *)
(* every other bit unchanged; the result is never the zero identifier.     *)
(***************************************************************************)
NewUUIDSetsVersionAndVariant ==
    (op = "New" /\ src.kind = "read") =>
        /\ err = "nil"
        /\ u[7] \div 16 = 4 /\ u[7] % 16 = src.bytes[7] % 16
        /\ u[9] \div 64 = 2 /\ u[9] % 64 = src.bytes[9] % 64
        /\ \A i \in (1..16) \ {7, 9} : u[i] = src.bytes[i]
        /\ \E i \in 1..16 : u[i] # 0

\* the random source delivered sixteen zero bytes
NewUUIDWitness ==
    /\ op = "New" /\ src.kind = "read"
    /\ \A i \in 1..16 : src.bytes[i] = 0
    /\ u[7] = 64 /\ u[9] = 128

(***************************************************************************)
(* C6: IsZero is true exactly for the identifier whose 16 bytes are all    *)
(* zero (the zero-constructed one, also when parsed from the all-zero      *)
(* string), whose canonical string is                                      *)
(* 00000000-0000-0000-0000-000000000000; the same for the typed IDs.       *)
(***************************************************************************)
ZeroString ==
    <<"0", "0", "0", "0", "0", "0", "0", "0", "-", "0", "0", "0", "0", "-",
      "0", "0", "0", "0", "-", "0", "0", "0", "0", "-",
      "0", "0", "0", "0", "0", "0", "0", "0", "0", "0", "0", "0">>

AllZeroBytes(id) == \A i \in 1..16 : id[i] = 0

RECURSIVE SumOps(_)
SumOps(ops) ==
    IF ops = <<>> THEN 0
    ELSE (IF Head(ops)[1] = "Add" THEN Head(ops)[2] ELSE -Head(ops)[2])
         + SumOps(Tail(ops))

AddSubtractExact ==
    /\ src.kind = "chain" => m = Int64(src.start + SumOps(src.ops))
    /\ (src.kind = "chain" /\ Len(src.ops) >= 2
          /\ src.ops[Len(src.ops) - 1][1] = "Add"
          /\ src.ops[Len(src.ops)][1] = "Subtract"
          /\ src.ops[Len(src.ops) - 1][2] = src.ops[Len(src.ops)][2]) =>
           m = Int64(src.start + SumOps(SubSeq(src.ops, 1, Len(src.ops) - 2)))
    /\ (src.kind = "chain" /\ src.ops = <<<<"Add", 1>>, <<"Subtract", 1>>>>) =>
           m = src.start
    /\ src.kind = "repeat" => (m = src.n /\ (src.n = 100 => m = 100))

\* the largest amount plus one centavo wrapped, and minus one centavo it is
\* the largest amount again
AddSubtractWitness ==
    /\ op = "Subtract" /\ src.kind = "chain" /\ src.start = MaxInt64
    /\ src.ops = <<<<"Add", 1>>, <<"Subtract", 1>>>>
    /\ m = MaxInt64

(***************************************************************************)
(* C12: FromMZN(v) is the float64 product v*100 rounded to the nearest     *)
(* integer, halves away from zero, and Multiply(f) rounds centavos*f the   *)
(* same way; FromMZN(0.1).Add(FromMZN(0.2)) is 30 centavos and prints as   *)
(* '0.30 MZN'.                                                             *)
(***************************************************************************)
\* the integer nearest to the float f, halves away from zero
RoundHalfAway(f) ==
    IF f.e >= 0 THEN f.m * TwoPow(f.e)
    ELSE IF -f.e > FloatBits THEN 0
    ELSE LET d == TwoPow(-f.e)
             q == AbsInt(f.m) \div d
             r == AbsInt(f.m) % d
             mag == IF 2 * r >= d THEN q + 1 ELSE q
         IN  IF f.m < 0 THEN -mag ELSE mag

FloatAdditionExample ==
    /\ (op = "Add" /\ src.kind = "floatsum" /\ src.f = FloatLit(1, 10)
          /\ src.g = FloatLit(2, 10)) => m = 30
    /\ (op = "String" /\ src.kind = "floatsum" /\ src.f = FloatLit(1, 10)
          /\ src.g = FloatLit(2, 10)) =>
           text = <<"0", ".", "3", "0", " ", "M", "Z", "N">>

FloatRoundsHalfAway ==
    /\ op = "FromMZN" => m = RoundHalfAway(FMul(src.f, F100))
    /\ op = "Multiply" => ret = RoundHalfAway(FMul(Float64OfInt(m), src.f))
    /\ FloatAdditionExample

\* the same, for products below 2^(FloatBits-1) in magnitude other than
\* the largest float below one half, computed without fusing
FloatRoundsHalfAwayInRange ==
    LET ordinary(p) == /\ AbsInt(RoundHalfAway(p)) < TwoPow(FloatBits - 2)
                       /\ AbsInt(p.m) # PredHalf.m \/ p.e # PredHalf.e
    IN  /\ (op = "FromMZN" /\ ~src.fused /\ ordinary(FMul(src.f, F100))) =>
               m = RoundHalfAway(FMul(src.f, F100))
        /\ (op = "Multiply" /\ ~src.fused
              /\ ordinary(FMul(Float64OfInt(m), src.f))) =>
               ret = RoundHalfAway(FMul(Float64OfInt(m), src.f))

(***************************************************************************)
(* C13: Percentage(r) with r < 0 or r > 100 returns the invalid-percentage *)
(* error and the zero amount, whatever the receiver holds (the rate is not *)
(* clamped); the rates 0 and 100 are accepted.                             *)
(***************************************************************************)
PercentageRejectsInvalidRate ==
    /\ (op = "Percentage" /\ (arg < 0 \/ arg > 100)) =>
           (err = "ErrInvalidPercentage" /\ ret = 0)
    /\ (op = "Percentage" /\ arg \in {0, 100}) => err = "nil"
    /\ (op = "Percentage" /\ arg = 0) => ret = 0
    /\ (op = "Percentage" /\ err = "ErrInvalidPercentage") =>
           (arg < 0 \/ arg > 100)

\* 101 percent of 100.01 MZN was asked for
PercentageRejectsWitness ==
    /\ op = "Percentage" /\ m = 10001 /\ arg = 101
    /\ err = "ErrInvalidPercentage" /\ ret = 0

DecodeErrorKeepsReceiver ==
    /\ (src.kind = "decode" /\ err # "nil"
          /\ op \in {"ID.UnmarshalJSON", "ID.UnmarshalText", "ID.Scan"}) =>
           u = src.before
    /\ (op = "Parse" /\ err # "nil") => u = zeroUUID
    /\ (src.kind = "decode" /\ err # "nil"
          /\ op \in {"UnmarshalJSON", "UnmarshalText", "Scan"}) =>
           m = src.before
    /\ (src.kind = "decode" /\ src.form \in {"parse", "quoted", "bare", "text",
                                              "string", "bytes"}
          /\ text \in {<<"1", "2", "3", "4", "5">>, <<"z", "z", "z", "z">>,
                        <<"\"", "1", "2", "3", "4", "5", "\"">>,
                        <<"\"", "z", "z", "z", "z", "\"">>}
          /\ op \in {"Parse", "ID.UnmarshalJSON", "ID.UnmarshalText", "ID.Scan"}) =>
           err # "nil"
    /\ (src.kind = "decode" /\ src.form = "other") => err # "nil"
    /\ (src.kind = "decode" /\ op = "Scan"
          /\ src.from.type \in {"bool", "uint"}) => err # "nil"
    /\ (src.kind = "decode" /\ op \in {"UnmarshalJSON", "UnmarshalText", "Scan"}
          /\ text = <<"a", "b", "c">>) => err # "nil"

\* a typed ID that was generated rejected the text 'zzzz' and kept its value
DecodeErrorWitness ==
    /\ op = "ID.UnmarshalText" /\ typ = "RideID" /\ src.kind = "decode"
    /\ text = <<"z", "z", "z", "z">>
    /\ err = "ErrInvalidUUID" /\ u = src.before /\ u # zeroUUID

(***************************************************************************)
(* C16: Scan takes a []byte of exactly 16 bytes verbatim as the binary     *)
(* value, parses any other []byte and any string by the rules of           *)
(* ParseUUID, sets the receiver to the zero identifier for a nil source    *)
(* (whatever it held), and returns an unsupported-type error for a source  *)
(* of any other type.                                                      *)
(***************************************************************************)
ScanAutoDetects ==
    (op = "ID.Scan" /\ src.kind = "decode") =>
        /\ (src.form \in {"raw", "bytes"} /\ Len(text) = 16) =>
               /\ err = "nil"
               /\ \A i \in 1..16 :
                      u[i] = IF src.form = "raw" THEN text[i] ELSE Ord(text[i])
        /\ (src.form = "raw" /\ Len(text) # 16) =>
               (err = "ErrInvalidUUID" /\ u = src.before)
        /\ (src.form = "string" \/ (src.form = "bytes" /\ Len(text) # 16)) =>
               /\ (err = "nil") <=> WellFormedID(text)
               /\ err = "nil" => u = src.in.base
               /\ err # "nil" => (err = "ErrInvalidUUID" /\ u = src.before)
        /\ src.form = "nil" => (err = "nil" /\ u = zeroUUID)
        /\ src.form = "other" =>
               (err = "cannot scan type into UUID" /\ u = src.before)

\* sixteen bytes that spell hex digits were taken as the binary value
ScanAutoDetectWitness ==
    /\ op = "ID.Scan" /\ src.kind = "decode" /\ src.form = "bytes"
    /\ Len(text) = 16 /\ text[1] = "0" /\ text[16] = "f"
    /\ err = "nil" /\ u[1] = 48 /\ u[16] = 102

(***************************************************************************)
(* C17: decoding a null or absent input through any identifier decode     *)
(* path (text, JSON, storage) yields the zero identifier without error.    *)
(***************************************************************************)
NullInput ==
    /\ src.kind = "decode"
    /\ \/ op = "ID.Scan" /\ src.form = "nil"
       \/ op = "ID.UnmarshalJSON" /\ src.form = "bare" /\ text = NullLiteral
       \/ op = "ID.UnmarshalText" /\ text \in {<<>>, NullLiteral}

NullDecodesToZero == NullInput => (err = "nil" /\ u = zeroUUID)

\* amended: a nil storage source decodes to the zero identifier without
\* error; the JSON literal null and an empty or 'null' text are rejected
\* with ErrInvalidUUID and leave the receiver as it was
NullDecodesFromStorageOnly ==
    /\ (NullInput /\ op = "ID.Scan") => (err = "nil" /\ u = zeroUUID)
    /\ (NullInput /\ op # "ID.Scan") =>
           (err = "ErrInvalidUUID" /\ u = src.before)

\* a generated identifier was handed the JSON null and kept its value
NullDecodeWitness ==
    /\ NullInput /\ op = "ID.UnmarshalJSON"
    /\ err = "ErrInvalidUUID" /\ u = src.before /\ u # zeroUUID

(***************************************************************************)
(* C18: identifier encoding (text, JSON, storage) never fails and yields   *)
(* the canonical 36-character string for a present identifier and null for *)
(* the absent (zero) identifier.                                           *)
(***************************************************************************)
\* where byte i of an identifier starts in its canonical string
HexOffset(i) ==
    2 * (i - 1) + (IF i > 4 THEN 1 ELSE 0) + (IF i > 6 THEN 1 ELSE 0)
        + (IF i > 8 THEN 1 ELSE 0) + (IF i > 10 THEN 1 ELSE 0)

LowerHex == <<"0", "1", "2", "3", "4", "5", "6", "7", "8", "9",
              "a", "b", "c", "d", "e", "f">>

IsCanonicalOf(s, id) ==
    /\ Len(s) = 36
    /\ \A i \in {9, 14, 19, 24} : s[i] = "-"
    /\ \A i \in 1..16 :
           /\ s[HexOffset(i) + 1] = LowerHex[(id[i] \div 16) + 1]
           /\ s[HexOffset(i) + 2] = LowerHex[(id[i] % 16) + 1]

\* the encoder's output without the quotes of the JSON form
Unquoted ==
    IF op = "ID.MarshalJSON" /\ Len(text) >= 2 /\ text[1] = "\""
        /\ text[Len(text)] = "\""
    THEN SubSeq(text, 2, Len(text) - 1) ELSE <<>>

RECURSIVE DigitsValue(_)
DigitsValue(s) ==
    IF s = <<>> THEN 0
    ELSE 10 * DigitsValue(SubSeq(s, 1, Len(s) - 1))
         + (CHOOSE d \in 0..9 : DigitChars[d + 1] = s[Len(s)])

\* s is the base-10 integer x: an optional '-', then digits without
\* leading zeros
IsBareInteger(s, x) ==
    LET digits == IF s # <<>> /\ s[1] = "-" THEN Tail(s) ELSE s
    IN  /\ digits # <<>>
        /\ \A i \in 1..Len(digits) : \E d \in 0..9 : DigitChars[d + 1] = digits[i]
        /\ Len(digits) > 1 => digits[1] # "0"
        /\ (s[1] = "-") <=> (x < 0)
        /\ DigitsValue(digits) = AbsInt(x)

MoneyJSONContract ==
    /\ op = "MarshalJSON" => (err = "nil" /\ IsBareInteger(text, m))
    /\ (op = "UnmarshalJSON" /\ src.kind = "MarshalJSON") =>
           (err = "nil" /\ m = src.val)
    /\ (op = "UnmarshalJSON" /\ src.kind = "decode") =>
           /\ text = NullLiteral => (err = "nil" /\ m = 0)
           /\ text = <<"1", "5", "0", "5", "0">> => (err = "nil" /\ m = 15050)
           /\ text = <<"-", "1", "5", "0", "5", "0">> =>
                  (err = "nil" /\ m = -15050)
           /\ (text # <<>> /\ text[1] = "\"") =>
                  (err = "ErrInvalidAmount" /\ m = src.before)
           /\ text = <<"1", ".", "5">> =>
                  (err = "ErrInvalidAmount" /\ m = src.before)

\* the smallest amount came back from its JSON into another receiver
MoneyJSONWitness ==
    /\ op = "UnmarshalJSON" /\ src.kind = "MarshalJSON"
    /\ src.val = MinInt64 /\ src.before = 7 /\ m = MinInt64 /\ err = "nil"

(***************************************************************************)
(* C20: MarshalText writes the same bare base-10 integer string as         *)
(* MarshalJSON: for every amount x, MarshalText(x) = MarshalJSON(x).       *)
(***************************************************************************)
MarshalTextEqualsJSON ==
    op = "MarshalText" => (err = "nil" /\ IsBareInteger(text, m))

\* amended: MarshalText writes the display form of String(), that is
\* Format() followed by ' MZN' ('<sign><major>.<minor> MZN' above the
\* smallest int64), which is never the bare integer MarshalJSON writes
MarshalTextIsDisplayForm ==
    op = "MarshalText" =>
        /\ err = "nil"
        /\ text = Format(m) \o <<" ", "M", "Z", "N">>
        /\ m # MinInt64 => text = Canonical(m) \o <<" ", "M", "Z", "N">>
        /\ ~IsBareInteger(text, m)

\* 150.50 MZN was marshaled as text
MarshalTextWitness ==
    /\ op = "MarshalText" /\ m = 15050
    /\ text = <<"1", "5", "0", ".", "5", "0", " ", "M", "Z", "N">>

(***************************************************************************)
(* C21: Value() is the int64 of the centavos; Scan sets the receiver to    *)
(* the integer an integer source of any common width, a float, a []byte or *)
(* a string holds, to zero for a nil source, and returns an                *)
(* unsupported-type error for a source of any other type;                  *)
(* Scan(Value(x)) = x for every amount x.                                  *)
(***************************************************************************)
IntegerTypes == {"int64", "int", "int32", "int16", "uint", "uint64"}

\* the float f (of the float64 model) holds the integer x
HoldsInteger(f, x) == f.e >= 0 /\ x = f.m * TwoPow(f.e)

\* x is the float f with its fraction discarded
TruncationOf(x, f) ==
    IF f.e >= 0 THEN x = f.m * TwoPow(f.e)
    ELSE /\ AbsInt(x) * TwoPow(-f.e) <= AbsInt(f.m)
         /\ AbsInt(f.m) < (AbsInt(x) + 1) * TwoPow(-f.e)
         /\ (x > 0 => f.m > 0) /\ (x < 0 => f.m < 0)

ScanRoundTrip ==
    /\ op = "Value" => (err = "nil" /\ ret = m /\ src.type = "int64")
    /\ (op = "Scan" /\ src.kind = "Value") => (err = "nil" /\ m = src.val)

ScanAcceptsEveryWidth ==
    /\ ScanRoundTrip
    /\ (op = "Scan" /\ src.kind = "decode") =>
           /\ src.from.type \in IntegerTypes => (err = "nil" /\ m = src.from.v)
           /\ (src.from.type \in {"float64", "float32"}
                  /\ \E x \in -200..200 : HoldsInteger(src.from.v, x)) =>
                  (err = "nil" /\ HoldsInteger(src.from.v, m))
           /\ (src.from.type \in {"string", "bytes"}
                  /\ \E x \in {15050, -15050} : IsBareInteger(src.from.v, x)) =>
                  (err = "nil" /\ IsBareInteger(src.from.v, m))
           /\ src.from.type = "nil" => (err = "nil" /\ m = 0)
           /\ src.from.type = "bool" =>
                  (err = "cannot scan type into Money" /\ m = src.before)

\* amended: Scan accepts an int64 or an int (no other integer width), a
\* float64 (whose fraction is discarded), and a []byte or a string that
\* strconv.ParseInt accepts; nil stores zero; a source of any other type,
\* the other integer widths and float32 included, is an unsupported-type
\* error, and a text that is not an integer is an amount format error,
\* both leaving the receiver as it was
ScanAcceptsInt64AndInt ==
    /\ ScanRoundTrip
    /\ (op = "Scan" /\ src.kind = "decode") =>
           /\ src.from.type \in {"int64", "int"} =>
                  (err = "nil" /\ m = src.from.v)
           /\ src.from.type = "float64" =>
                  (err = "nil" /\ TruncationOf(m, src.from.v))
           /\ (src.from.type \in {"string", "bytes"}
                  /\ \E x \in {15050, -15050} : IsBareInteger(src.from.v, x)) =>
                  (err = "nil" /\ IsBareInteger(src.from.v, m))
           /\ (src.from.type \in {"string", "bytes"}
                  /\ src.from.v \in {<<>>, <<" ", "4", "2", " ">>, <<"1", ".", "5">>,
                                      <<"a", "b", "c">>, <<"n", "u", "l", "l">>}) =>
                  (err = "ErrInvalidAmount" /\ m = src.before)
           /\ src.from.type = "nil" => (err = "nil" /\ m = 0)
           /\ src.from.type \notin {"int64", "int", "float64", "string", "bytes",
                                     "nil"} =>
                  (err = "cannot scan type into Money" /\ m = src.before)

\* a receiver holding 7 centavos was handed an int32 and kept its value
ScanInt32Witness ==
    /\ op = "Scan" /\ src.kind = "decode" /\ src.from.type = "int32"
    /\ src.from.v = 150 /\ src.before = 7 /\ m = 7
    /\ err = "cannot scan type into Money"

(***************************************************************************)
(* C22: each typed ID behaves as the primitive: on the same input its      *)
(* generate, parse, String, IsZero, MarshalJSON/UnmarshalJSON,             *)
(* MarshalText/UnmarshalText, Value and Scan succeed or fail as the        *)
(* primitive's operation does, produce the same output and leave the same  *)
(* 16 bytes.                                                               *)
(***************************************************************************)
\* the source handed to Scan, as the call recorded it
ScannedSource ==
    IF src.form = "string" THEN [type |-> "string", v |-> text]
    ELSE IF src.form = "bytes" THEN [type |-> "bytes", v |-> BytesOf(text)]
    ELSE IF src.form = "raw" THEN [type |-> "bytes", v |-> text]
    ELSE IF src.form = "nil" THEN [type |-> "nil", v |-> <<>>]
    ELSE [type |-> "int", v |-> <<>>]

\* the typed receiver holds r.uuid and the call failed exactly if r did
SameAsPrimitive(r) == u = r.uuid /\ ((err = "nil") <=> (r.err = "nil"))

TypedBehavesAsPrimitive ==
    typ \in TypedIDs =>
        /\ (op = "New" /\ src.kind = "read") =>
               SameAsPrimitive(NewUUID([ok |-> TRUE, bytes |-> src.bytes]))
        /\ (op = "New" /\ src.kind = "readfail") =>
               SameAsPrimitive(NewUUID([ok |-> FALSE, bytes |-> <<>>]))
        /\ op = "Parse" => SameAsPrimitive(ParseUUID(text))
        /\ op = "ID.String" => (err = "nil" /\ text = UUIDString(u))
        /\ op = "ID.MarshalJSON" => (err = "nil" /\ text = UUIDMarshalJSON(u))
        /\ op = "ID.MarshalText" => (err = "nil" /\ text = UUIDMarshalText(u))
        /\ op = "ID.Value" => (err = "nil" /\ text = UUIDValue(u))
        /\ op = "ID.IsZero" => (ok <=> IsZero(u))
        /\ (op = "ID.UnmarshalJSON" /\ src.kind = "decode") =>
               SameAsPrimitive(UUIDUnmarshalJSON(src.before, text))
        /\ (op = "ID.UnmarshalText" /\ src.kind = "decode") =>
               SameAsPrimitive(UUIDUnmarshalText(src.before, text))
        /\ (op = "ID.Scan" /\ src.kind = "decode") =>
               SameAsPrimitive(Scan(src.before, ScannedSource))

\* a typed ID that was generated took sixteen raw bytes from storage
TypedScanWitness ==
    /\ op = "ID.Scan" /\ typ = "DriverID" /\ src.kind = "decode"
    /\ src.form = "raw" /\ Len(text) = 16 /\ src.before # zeroUUID
    /\ err = "nil" /\ u = text /\ u # src.before

(***************************************************************************)
(* C23: every identifier format error raised through a typed wrapper, by   *)
(* Parse<Type>ID and by the wrapper's UnmarshalJSON, UnmarshalText and     *)
(* Scan, carries the wrapper's type name and still matches the             *)
(* invalid-identifier error; the value returned or left behind is the zero *)
(* or unchanged typed ID.                                                  *)
(***************************************************************************)
\* a typed wrapper's operation failed on a malformed identifier
TypedFormatError ==
    /\ typ \in TypedIDs
    /\ op \in {"Parse", "ID.UnmarshalJSON", "ID.UnmarshalText", "ID.Scan"}
    /\ src.kind = "decode"
    /\ err \notin {"nil", "cannot scan type into UUID"}

\* e names the type t and no other
CarriesTypeName(e, t) ==
    e = WrapInvalid(t) /\ \A other \in TypedIDs \ {t} : e # WrapInvalid(other)

TypedErrorsCarryTypeName ==
    TypedFormatError =>
        /\ CarriesTypeName(err, typ)
        /\ ErrorsIs(err, "ErrInvalidUUID")
        /\ u = IF op = "Parse" THEN zeroUUID ELSE src.before

\* amended: only Parse<Type>ID wraps the error with the type name; the
\* wrapper's UnmarshalJSON, UnmarshalText and Scan return the primitive's
\* error as it is, which names no type; every one of them matches the
\* invalid-identifier error and leaves the zero or unchanged typed ID
ParseErrorsCarryTypeName ==
    TypedFormatError =>
        /\ op = "Parse" => CarriesTypeName(err, typ)
        /\ op # "Parse" =>
               (err = "ErrInvalidUUID" /\ \A t \in TypedIDs : err # WrapInvalid(t))
        /\ ErrorsIs(err, "ErrInvalidUUID")
        /\ u = IF op = "Parse" THEN zeroUUID ELSE src.before

\* a typed ID that was generated rejected a JSON string with the
\* primitive's error
TypedBareErrorWitness ==
    /\ TypedFormatError /\ op = "ID.UnmarshalJSON" /\ typ = "UserID"
    /\ text = <<"\"", "z", "z", "z", "z", "\"">>
    /\ err = "ErrInvalidUUID" /\ u = src.before /\ u # zeroUUID

(***************************************************************************)
(* C24: parsing ignores the case of the hex digits (inputs that differ     *)
(* only in case parse to the same identifier), and String() is always the  *)
(* 36-character lower-case hyphenated form, so String(ParseUUID(s)) is the *)
(* lower-case hyphenated form of an accepted s.                            *)
(***************************************************************************)
\* the lower-case form of a character
LowerOf(ch) ==
    CASE ch = "A" -> "a" [] ch = "B" -> "b" [] ch = "C" -> "c"
      [] ch = "D" -> "d" [] ch = "E" -> "e" [] ch = "F" -> "f"
      [] OTHER -> ch

\* the hyphenated form of a string of 32 characters
Hyphenated(s) ==
    IF Len(s) # 32 THEN s
    ELSE SubSeq(s, 1, 8) \o <<"-">> \o SubSeq(s, 9, 12) \o <<"-">>
         \o SubSeq(s, 13, 16) \o <<"-">> \o SubSeq(s, 17, 20) \o <<"-">>
         \o SubSeq(s, 21, 32)

\* s matches [0-9a-f]{8}-[0-9a-f]{4}-[0-9a-f]{4}-[0-9a-f]{4}-[0-9a-f]{12}
MatchesCanonicalPattern(s) ==
    /\ Len(s) = 36
    /\ \A i \in 1..36 :
           IF i \in {9, 14, 19, 24} THEN s[i] = "-"
           ELSE \E d \in 1..16 : LowerHex[d] = s[i]

ParseIgnoresCase ==
    /\ (op = "Parse" /\ src.kind = "cased") => (err = "nil" /\ u = src.base)
    /\ (op = "ID.String" /\ src.kind = "parsed") =>
           /\ MatchesCanonicalPattern(text)
           /\ IsCanonicalOf(text, u)
           /\ text = [i \in 1..36 |-> LowerOf(Hyphenated(src.s)[i])]

\* a compact string with every second letter in upper case was parsed and
\* printed in lower case with hyphens
ParseIgnoresCaseWitness ==
    /\ op = "ID.String" /\ src.kind = "parsed"
    /\ src.in.casing = "odd" /\ ~src.in.hyphens /\ Len(src.s) = 32
    /\ src.s[1] = "A" /\ src.s[2] = "b" /\ src.s[3] = "F"
    /\ text[1] = "a" /\ text[2] = "b" /\ text[3] = "f" /\ text[9] = "-"

(***************************************************************************)
(* C25: when the random source fails, NewUUID and every New<Type>ID return *)
(* a non-nil error and the zero identifier after a single read (no retry,  *)
(* no other source of entropy), and MustNewUUID / MustNew<Type>ID panic    *)
(* instead of returning.                                                   *)
(***************************************************************************)
RandomFailureIsFatal ==
    (op \in {"New", "MustNew"} /\ src.kind = "source") =>
        /\ Len(src.left) = Len(src.outcomes) - 1
        /\ src.left = <<src.outcomes[2]>>
        /\ (~src.outcomes[1].ok /\ op = "New") =>
               (err \notin {"nil", "panic"} /\ u = zeroUUID)
        /\ (~src.outcomes[1].ok /\ op = "MustNew") => err = "panic"
        /\ src.outcomes[1].ok => (err = "nil" /\ u # zeroUUID)

\* a typed ID was asked for, the first read failed and a second read would
\* have succeeded
RandomFailureWitness ==
    /\ op = "New" /\ typ = "PaymentID" /\ src.kind = "source"
    /\ ~src.outcomes[1].ok /\ src.outcomes[2].ok
    /\ err = "failed to generate UUID" /\ u = zeroUUID

(***************************************************************************)
(* C26: MustParseUUID, MustParse<Type>ID and MustPercentage panic exactly  *)
(* when Parse and Percentage return an error and otherwise return the same *)
(* value; no other operation panics, whatever its input.                   *)
(***************************************************************************)
MustOps == {"MustNew", "MustParse", "MustPercentage"}

PercentageOfWhole ==
    (op = "Percentage" /\ err = "nil") =>
        /\ arg = MaxRate => ret = m
        /\ arg = 0 => ret = 0

\* the same for the amounts whose product with 100 is an int64
PercentageOfWholeInRange ==
    (op = "Percentage" /\ err = "nil"
        /\ m * Hundred >= MinInt64 /\ m * Hundred <= MaxInt64) =>
        /\ arg = MaxRate => ret = m
        /\ arg = 0 => ret = 0

\* 100% of the largest int64 was asked for
PercentageOfWholeAtLimit ==
    op = "Percentage" /\ arg = MaxRate /\ m = MaxInt64 /\ ret = -1

(***************************************************************************)
(* C28: every value operation of Money (Add, Subtract, Multiply,           *)
(* MultiplyInt, Percentage, Split, Abs, Negate, the comparisons,           *)
(* String/Format, Marshal*, Value) and every identifier query (String,     *)
(* IsZero, Bytes, Marshal*, Value) leaves its receiver and its argument    *)
(* unchanged; the slice Bytes returns is an independent copy of 16 bytes:  *)
(* writing into it changes neither the identifier nor what a later Bytes   *)
(* call returns.                                                           *)
(***************************************************************************)
IDQueries == {"ID.String", "ID.MarshalJSON", "ID.MarshalText", "ID.Value"}

Once == op \in {"Negate", "Abs"} /\ src.kind = "call"

Twice(first, second) ==
    op = second /\ src.kind = "twice" /\ src.first = first

NegateAbsDirect ==
    /\ (Once /\ op = "Negate" /\ m # MinInt64) =>
           /\ ret + m = 0
           /\ (m > 0 <=> ret < 0) /\ (m < 0 <=> ret > 0)
           /\ AbsInt(ret) = AbsInt(m)
    /\ (Once /\ op = "Abs" /\ m # MinInt64) =>
           /\ ret >= 0
           /\ ret = m \/ ret + m = 0
    /\ (Once /\ m = MinInt64) => ret = MinInt64
    /\ Twice("Negate", "Negate") => ret = m
    /\ (Twice("Abs", "Abs") /\ m # MinInt64) => ret = src.mid
    /\ (Twice("Abs", "Abs") /\ m = MinInt64) => ret = MinInt64
    /\ (Twice("Abs", "Negate") /\ m # MinInt64) => ret = -AbsInt(m)

\* the smallest int64 was negated twice
NegateTwiceWitness ==
    Twice("Negate", "Negate") /\ m = MinInt64 /\ src.mid = MinInt64
        /\ ret = MinInt64

(***************************************************************************)
(* C29: UnmarshalText returns ErrInvalidAmount and stores nothing for      *)
(* every trimmed, suffix-stripped input that contains a point but is not   *)
(* an optionally signed digit string, one point and a minor part made only *)
(* of digits; so the minor part of an accepted decimal contributes a value *)
(* in 0..99.                                                               *)
(***************************************************************************)
Stripped(data) ==
    TrimSpace(TrimSuffix(TrimSuffix(TrimSpace(data), SuffixMZN), BareMZN))

OnlyDigits(s) == \A i \in 1..Len(s) : IsDigit(s[i])

SignedDigits(s) ==
    LET body == IF s # <<>> /\ Head(s) \in {"+", "-"} THEN Tail(s) ELSE s
    IN  body # <<>> /\ OnlyDigits(body)

WellFormedDecimal(s) ==
    LET ps == StringsSplit(s, ".")
    IN  Len(ps) = 2 /\ SignedDigits(ps[1]) /\ OnlyDigits(ps[2])

DecimalText ==
    /\ op = "UnmarshalText" /\ src.kind = "decode" /\ src.form = "text"
    /\ Contains(Stripped(text), ".")

MalformedDecimalRejected ==
    /\ (DecimalText /\ ~WellFormedDecimal(Stripped(text))) =>
           (err = "ErrInvalidAmount" /\ m = src.before)
    /\ (DecimalText /\ err = "nil") =>
           LET major == ParseInt(StringsSplit(Stripped(text), ".")[1]).val
           IN  AbsInt(m - major * CentavosPerMZN) \in 0..99
                   /\ AbsInt(m) >= AbsInt(major * CentavosPerMZN)

\* what the code does reject: more than one point, a major part that is
\* not a signed digit string, a minor part whose first two characters
\* are not an integer
MalformedMajorRejected ==
    DecimalText =>
        LET ps == StringsSplit(Stripped(text), ".")
        IN  (Len(ps) # 2 \/ ~SignedDigits(ps[1])
                \/ ~SignedDigits(CentPart(ps[2])))
                <=> (err = "ErrInvalidAmount" /\ m = src.before)

\* '1.-5' was decoded
SignedMinorAccepted ==
    /\ DecimalText /\ text = <<"1", ".", "-", "5">>
    /\ err = "nil" /\ m = 95

====
